---- MODULE Spec2Model ----
(***************************************************************************)
(* BitForge: the asynchronous build-orchestration engine.                  *)
(*                                                                         *)
(* The module holds several specifications over one set of variables:      *)
(*   SpecRun    process.rs run_command: one invocation with its child      *)
(*              process, the two OS pipes and the two drain tasks.         *)
(*   FairRun    SpecRun with the scheduler's fairness (liveness).          *)
(*   SpecProbe  process.rs probe as a function of the command's outcome.   *)
(*   SpecBus    app.rs observer (update loop), the message channel, the    *)
(*              confirm channel and the tasks that talk to them.           *)
(*   SpecApp    the observer with the dependency task and the compile      *)
(*              task; FairApp adds the fairness its liveness rests on.     *)
(*   SpecDeps   deps.rs check_dependencies_task, statement by statement.   *)
(*   SpecCompile  app.rs compile task with the compiler.rs pipelines.      *)
(*   SpecVersions  app.rs version lists and spawn_compile's readiness test.*)
(*   SpecTag    compiler.rs helpers on tags and strings, as functions.     *)
(*   SpecLog    app.rs append_log and the bounded log buffer.              *)
(*   SpecCopy   compiler.rs copy_binaries over a build and an output       *)
(*              directory, called by compile_bitcoin and called again.     *)
(*   SpecOrder  app.rs drain_messages with two tasks that send to the      *)
(*              channel, followed message by message.                      *)
(* Strings whose content matters are sequences of one-character strings.   *)
(***************************************************************************)
EXTENDS Integers, Sequences, FiniteSets

VARIABLES
    msg_q,        \* the AppMessage channel (std::sync::mpsc, unbounded FIFO)
    \* ---- run_command ----
    rc_cmd,       \* the command string
    rc_pc,        \* position of run_command (and of its caller afterwards)
    rc_status,    \* what child.wait() returned (NoStatus before)
    rc_result,    \* the Result run_command returned (NoResult before)
    script,       \* the child's program: the lines it will write, in order
    child,        \* "none" | "running" | "exited"
    child_ip,     \* number of script entries the child has executed
    child_status, \* the child's exit status once it has exited
    wrote,        \* per stream: indexes of the lines that reached the pipe
    pipe,         \* per stream: lines in the OS pipe buffer
    reader,       \* per stream: state of the drain task
    \* ---- probe ----
    pr_pc, pr_in, pr_result,
    \* ---- observer, channels, tasks ----
    brew,         \* TRUE when find_brew() found Homebrew at start-up
    obs_pc,       \* position of the observer inside update()
    modal,        \* Option<Modal>
    is_busy,
    progress,
    polls,        \* confirm_rx.try_recv calls made by the current drain
    confirm_q,    \* the ConfirmRequest channel
    confirm_rx,   \* TRUE while the receiver of the confirm channel exists
    slot,         \* per request: state of its oneshot reply slot
    replies,      \* per request: number of replies written to its slot
    taken,        \* requests the observer took off the confirm channel
    deferred,     \* unresolved requests that were queued when a drain skipped the
                  \* poll (a resolved one is forgotten when the next frame begins)
    next_req,     \* number of requests created so far
    dep_pc,       \* position of the dependency-check task
    dep_req,      \* the request the task is asking about (0: none)
    dep_answer,   \* what ask_confirm returned ("none" before)
    ref_pc,       \* position of the version-refresh task
    \* ---- check_dependencies_task ----
    brew_has,     \* environment: the Homebrew packages that are installed
    path_has,     \* environment: the toolchain tools a probe finds in PATH
    cd_pc,        \* position of check_dependencies_task (and of its wrapper)
    cd_i,         \* loop index of the package scan / of the install loop
    missing,      \* Vec of the packages the scan did not find
    asked,        \* number of ConfirmRequests the task has sent
    cd_reply,     \* what became of the reply slot ("none" before)
    should_install,
    installs,     \* the install commands handed to run_command, in order
    rustc_ok, cargo_ok, rust_ok,
    last_probe,   \* per tool: outcome of the most recent probe ("none" before)
    probed,       \* history: the toolchain probes of check_rust_installation, in order
    cd_ret,       \* the Result check_dependencies_task returned ("none" before)
    \* ---- the compile task and its pipelines ----
    target,       \* "Bitcoin" | "Electrs" | "Both"
    bitcoin_ver, electrs_ver,
    src_exists,   \* environment, per target: the source directory exists
    src_usable,   \* environment, per target: it holds a complete git repository
    ck_pc,        \* position of the compile task, inside its pipelines too
    cur,          \* the target whose pipeline is running ("none" outside)
    error_occurred,
    output_dirs,
    ran,          \* the commands handed to run_command, in order
    copied,       \* per target: the binaries copy_binaries copied
    pl_ret,       \* per target: what its pipeline returned
    probes,       \* the toolchain probes the Electrs pipeline has run, in order
    dirs,         \* the create_dir_all calls of the pipelines, in order
    \* ---- the observer's version lists ----
    bitcoin_versions, selected_bitcoin,
    electrs_versions, selected_electrs,
    \* ---- a call of one of compiler.rs's string helpers ----
    tg_fn,        \* the helper called
    tg_in,        \* its argument
    tg_pc,        \* "off", "call", "done"
    tg_out,       \* what it returned
    \* ---- the observer's log buffer ----
    log_buffer,   \* BitForgeApp::log_buffer, a sequence of characters
    log_line_count,
    lg_pushed,    \* history: the buffer of the last append_log after push_str
    lg_split,     \* history: what the last append_log's search for the split found
    \* ---- copy_binaries ----
    built,        \* build directory: per expected binary "absent" or its mode
    out_dir,      \* the versioned output directory: "absent" | "dir" | "file"
    out,          \* per binary name: the entry of that name in the output directory
    cp_pc,        \* "collect" | "again" | "done"
    cp_ret,       \* what each copy_binaries call returned, in order
    cp_snap,      \* history: `out` at the start and after each call
    cp_res,       \* what compile_bitcoin returned (NoReturn before)
    \* ---- message order ----
    od_prog,      \* per task: the messages it sends, in order
    od_next,      \* per task: how many of them it has sent
    od_applied    \* history: the messages drain_messages has applied, in order

runVars   == <<rc_cmd, rc_pc, rc_status, rc_result, script, child, child_ip,
               child_status, wrote, pipe, reader>>
probeVars == <<pr_pc, pr_in, pr_result>>
busVars   == <<brew, obs_pc, modal, is_busy, progress, polls, confirm_q, confirm_rx,
               slot, replies, taken, deferred, next_req, dep_pc, dep_req,
               dep_answer, ref_pc>>
depsVars  == <<brew_has, path_has, cd_pc, cd_i, missing, asked, cd_reply,
               should_install, installs, rustc_ok, cargo_ok, rust_ok, last_probe,
               probed, cd_ret>>
cmpVars   == <<target, bitcoin_ver, electrs_ver, src_exists, src_usable, ck_pc, cur,
               error_occurred, output_dirs, ran, copied, pl_ret,
               probes, dirs>>
verVars   == <<bitcoin_versions, selected_bitcoin, electrs_versions, selected_electrs>>
tagVars   == <<tg_fn, tg_in, tg_pc, tg_out>>
logVars   == <<log_buffer, log_line_count, lg_pushed, lg_split>>
copyVars  == <<built, out_dir, out, cp_pc, cp_ret, cp_snap, cp_res>>
ordVars   == <<od_prog, od_next, od_applied>>
auxVars   == <<tagVars, logVars, copyVars, ordVars>>
vars      == <<msg_q, runVars, probeVars, busVars, depsVars, cmpVars, verVars, auxVars>>

-----------------------------------------------------------------------------
(* Bounds *)
MaxLines    == 2   \* lines a child writes
PipeCap     == 1   \* lines an OS pipe buffer holds
MaxOut      == 3   \* characters of a probed command's standard output
MaxQueue    == 2   \* messages queued in the message channel
MaxRequests == 2   \* ConfirmRequests created in one behaviour

-----------------------------------------------------------------------------
(* Strings *)
Streams == {"stdout", "stderr"}

Digit == <<"0", "1", "2", "3", "4", "5", "6", "7", "8", "9">>

\* i32::to_string for a non-negative exit code
RECURSIVE to_string(_)
to_string(n) == IF n < 10 THEN <<Digit[n + 1]>>
                ELSE to_string(n \div 10) \o <<Digit[(n % 10) + 1]>>

Contains(s, sub) ==
    \E i \in 0..(Len(s) - Len(sub)) :
        \A j \in 1..Len(sub) : s[i + j] = sub[j]

StrSignal == <<"s", "i", "g", "n", "a", "l">>
StrCommandFailed ==
    <<"C", "o", "m", "m", "a", "n", "d", " ", "f", "a", "i", "l", "e", "d",
      " ", "(", "e", "x", "i", "t", " ">>
StrFailedToSpawn ==
    <<"F", "a", "i", "l", "e", "d", " ", "t", "o", " ", "s", "p", "a", "w",
      "n", ":", " ">>
StrFailedToWait ==
    <<"F", "a", "i", "l", "e", "d", " ", "t", "o", " ", "w", "a", "i", "t",
      " ", "f", "o", "r", ":", " ">>

-----------------------------------------------------------------------------
(***************************************************************************)
(* process.rs: run_command                                                 *)
(***************************************************************************)
NoStatus == [kind |-> "none", code |-> 0]
NoResult == [kind |-> "none", msg |-> <<>>]
OkResult == [kind |-> "ok", msg |-> <<>>]
Err(m)   == [kind |-> "err", msg |-> m]

Exited(c)    == [kind |-> "code", code |-> c]
Signalled(n) == [kind |-> "signal", code |-> n]

SIGKILL == 9
SIGPIPE == 13

\* what a child may report when it runs to its end
ExitStatuses == {Exited(0), Exited(1), Exited(17), Signalled(SIGPIPE)}

Cmds == {<<"l", "s">>, <<"m", "k", " ", "7">>}

\* one line of child output: the stream it goes to and whether its bytes are
\* valid UTF-8
LineKinds == [s : Streams, utf8 : BOOLEAN]

RECURSIVE SeqsUpTo(_, _)
SeqsUpTo(S, n) ==
    IF n = 0 THEN {<<>>}
    ELSE LET shorter == SeqsUpTo(S, n - 1)
         IN  shorter \cup {Append(q, x) : q \in {r \in shorter : Len(r) = n - 1}, x \in S}

\* ExitStatus::success
StatusSuccess(st) == st.kind = "code" /\ st.code = 0

\* process.rs:82-90, the Result built from the exit status
ExitMessageNoCode(st, cmd) ==
    StrCommandFailed \o <<")", ":", " ">> \o cmd

ExitMessage(st, cmd) ==
    StrCommandFailed
        \o (IF st.kind = "code" THEN to_string(st.code) ELSE StrSignal)
        \o <<")", ":", " ">> \o cmd

StatusResult(st, cmd) ==
    IF ~StatusSuccess(st) THEN Err(ExitMessage(st, cmd)) ELSE OkResult

\* .kill_on_drop(true)
KillOnDropOff == FALSE

KillOnDrop == TRUE

\* The drain task of stream s may take a step: it was spawned with tokio::spawn
\* and runs independently of the other drain task.
ReaderMayRunSequential(s) ==
    /\ reader[s] = "running"
    /\ (s = "stderr" => reader["stdout"] \in {"eof", "error"})

ReaderMayRun(s) == reader[s] = "running"

\* the read end of pipe s is still open (held by run_command or its drain task)
ReadEndOpen(s) == reader[s] \in {"unspawned", "running"}

LogAnnounce   == [kind |-> "Log", src |-> "announce", val |-> 0]
LogLine(s, i) == [kind |-> "Log", src |-> s, val |-> i]
LogAfter      == [kind |-> "Log", src |-> "caller", val |-> 0]

ProbeIdle == /\ pr_pc = "off"
             /\ pr_in = [cmd |-> <<>>, started |-> FALSE, status |-> NoStatus, out |-> <<>>]
             /\ pr_result = [some |-> FALSE, val |-> <<>>]

BusIdle == /\ brew = FALSE
           /\ obs_pc = "off"
           /\ modal = [kind |-> "None", req |-> 0]
           /\ is_busy = FALSE
           /\ progress = 0
           /\ polls = 0
           /\ confirm_q = <<>>
           /\ confirm_rx = TRUE
           /\ slot = [r \in 1..MaxRequests |-> "unused"]
           /\ replies = [r \in 1..MaxRequests |-> 0]
           /\ taken = {}
           /\ deferred = {}
           /\ next_req = 0
           /\ dep_pc = "off"
           /\ dep_req = 0
           /\ dep_answer = "none"
           /\ ref_pc = "off"

DepsIdle == /\ brew_has = {}
            /\ path_has = {}
            /\ cd_pc = "off"
            /\ cd_i = 0
            /\ missing = <<>>
            /\ asked = 0
            /\ cd_reply = "none"
            /\ should_install = FALSE
            /\ installs = <<>>
            /\ rustc_ok = FALSE
            /\ cargo_ok = FALSE
            /\ rust_ok = FALSE
            /\ last_probe = [t \in {"rustc", "cargo"} |-> "none"]
            /\ probed = <<>>
            /\ cd_ret = "none"

Targets == {"Bitcoin", "Electrs"}

NoReturn == [st |-> "none", msg |-> "", cause |-> <<>>]

CmpIdle == /\ target = "Bitcoin"
           /\ bitcoin_ver = <<>>
           /\ electrs_ver = <<>>
           /\ src_exists = [t \in Targets |-> FALSE]
           /\ src_usable = [t \in Targets |-> FALSE]
           /\ ck_pc = "off"
           /\ cur = "none"
           /\ error_occurred = FALSE
           /\ output_dirs = <<>>
           /\ ran = <<>>
           /\ copied = [t \in Targets |-> {}]
           /\ pl_ret = [t \in Targets |-> NoReturn]
           /\ probes = <<>>
           /\ dirs = <<>>

\* app.rs:147-150, the placeholder "Loading..."
Placeholder == <<"L", "o", "a", "d", "i", "n", "g", ".", ".", ".">>

VerIdle == /\ bitcoin_versions = <<Placeholder>>
           /\ selected_bitcoin = Placeholder
           /\ electrs_versions = <<Placeholder>>
           /\ selected_electrs = Placeholder

TagIdle == /\ tg_fn = "none"
           /\ tg_in = <<>>
           /\ tg_pc = "off"
           /\ tg_out = <<>>

LogIdle == /\ log_buffer = <<>>
           /\ log_line_count = 0
           /\ lg_pushed = <<>>
           /\ lg_split = "none"

CopyIdle == /\ built = <<>>
            /\ out_dir = "none"
            /\ out = <<>>
            /\ cp_pc = "off"
            /\ cp_ret = <<>>
            /\ cp_snap = <<>>
            /\ cp_res = "none"

OrdIdle == /\ od_prog = <<>>
           /\ od_next = <<>>
           /\ od_applied = <<>>

AuxIdle == TagIdle /\ LogIdle /\ CopyIdle /\ OrdIdle

InitRun ==
    /\ msg_q = <<>>
    /\ rc_cmd \in Cmds
    /\ rc_pc = "announce"
    /\ rc_status = NoStatus
    /\ rc_result = NoResult
    /\ script \in SeqsUpTo(LineKinds, MaxLines)
    /\ child = "none"
    /\ child_ip = 0
    /\ child_status = NoStatus
    /\ wrote = [s \in Streams |-> <<>>]
    /\ pipe = [s \in Streams |-> <<>>]
    /\ reader = [s \in Streams |-> "unspawned"]
    /\ ProbeIdle
    /\ BusIdle
    /\ DepsIdle
    /\ CmpIdle
    /\ VerIdle
    /\ AuxIdle

RunFrame == UNCHANGED <<probeVars, busVars, depsVars, cmpVars, verVars, auxVars>>

\* process.rs:28-30
RcAnnounce ==
    /\ rc_pc = "announce"
    /\ msg_q' = Append(msg_q, LogAnnounce)
    /\ rc_pc' = "spawn"
    /\ UNCHANGED <<rc_cmd, rc_status, rc_result, script, child, child_ip,
                   child_status, wrote, pipe, reader>>
    /\ RunFrame

\* process.rs:32-49, the child starts
RcSpawnOk ==
    /\ rc_pc = "spawn"
    /\ child' = "running"
    /\ rc_pc' = "spawn_stdout"
    /\ UNCHANGED <<msg_q, rc_cmd, rc_status, rc_result, script, child_ip,
                   child_status, wrote, pipe, reader>>
    /\ RunFrame

\* process.rs:47-49, spawn() fails and `?` returns
RcSpawnFail ==
    /\ rc_pc = "spawn"
    /\ rc_result' = Err(StrFailedToSpawn \o rc_cmd)
    /\ rc_pc' = "returned"
    /\ UNCHANGED <<msg_q, rc_cmd, rc_status, script, child, child_ip,
                   child_status, wrote, pipe, reader>>
    /\ RunFrame

\* process.rs:58-63
RcSpawnStdout ==
    /\ rc_pc = "spawn_stdout"
    /\ reader' = [reader EXCEPT !["stdout"] = "running"]
    /\ rc_pc' = "spawn_stderr"
    /\ UNCHANGED <<msg_q, rc_cmd, rc_status, rc_result, script, child, child_ip,
                   child_status, wrote, pipe>>
    /\ RunFrame

\* process.rs:65-70
RcSpawnStderr ==
    /\ rc_pc = "spawn_stderr"
    /\ reader' = [reader EXCEPT !["stderr"] = "running"]
    /\ rc_pc' = "wait"
    /\ UNCHANGED <<msg_q, rc_cmd, rc_status, rc_result, script, child, child_ip,
                   child_status, wrote, pipe>>
    /\ RunFrame

\* process.rs:73-76, child.wait().await completes with the exit status
RcWait ==
    /\ rc_pc = "wait"
    /\ child = "exited"
    /\ rc_status' = child_status
    /\ rc_pc' = "join_stdout"
    /\ UNCHANGED <<msg_q, rc_cmd, rc_result, script, child, child_ip,
                   child_status, wrote, pipe, reader>>
    /\ RunFrame

\* process.rs:73-76, child.wait().await yields an io::Error and `?` returns
RcWaitFail ==
    /\ rc_pc = "wait"
    /\ rc_result' = Err(StrFailedToWait \o rc_cmd)
    /\ rc_pc' = "returned"
    /\ UNCHANGED <<msg_q, rc_cmd, rc_status, script, child, child_ip,
                   child_status, wrote, pipe, reader>>
    /\ RunFrame

\* process.rs:79
RcJoinStdout ==
    /\ rc_pc = "join_stdout"
    /\ reader["stdout"] \in {"eof", "error"}
    /\ rc_pc' = "join_stderr"
    /\ UNCHANGED <<msg_q, rc_cmd, rc_status, rc_result, script, child, child_ip,
                   child_status, wrote, pipe, reader>>
    /\ RunFrame

\* process.rs:80-90
RcJoinStderr ==
    /\ rc_pc = "join_stderr"
    /\ reader["stderr"] \in {"eof", "error"}
    /\ rc_result' = StatusResult(rc_status, rc_cmd)
    /\ rc_pc' = "returned"
    /\ UNCHANGED <<msg_q, rc_cmd, rc_status, script, child, child_ip,
                   child_status, wrote, pipe, reader>>
    /\ RunFrame

\* the calling task's next message after run_command returned
\* (deps.rs:96-98, deps.rs:209-220, app.rs:379)
CallerAfter ==
    /\ rc_pc = "returned"
    /\ msg_q' = Append(msg_q, LogAfter)
    /\ rc_pc' = "after"
    /\ UNCHANGED <<rc_cmd, rc_status, rc_result, script, child, child_ip,
                   child_status, wrote, pipe, reader>>
    /\ RunFrame

\* The owning task is dropped while suspended at one of run_command's awaits
\* (runtime shutdown); the Child handle is dropped with it.
DropTask ==
    /\ rc_pc \in {"wait", "join_stdout", "join_stderr"}
    /\ rc_pc' = "dropped"
    /\ IF child = "running" /\ KillOnDrop
       THEN /\ child' = "exited"
            /\ child_status' = Signalled(SIGKILL)
       ELSE UNCHANGED <<child, child_status>>
    /\ UNCHANGED <<msg_q, rc_cmd, rc_status, rc_result, script, child_ip,
                   wrote, pipe, reader>>
    /\ RunFrame

\* the child writes its next line into the pipe of that line's stream
ChildWrite ==
    /\ child = "running"
    /\ child_ip < Len(script)
    /\ LET ln == script[child_ip + 1]
       IN  /\ ReadEndOpen(ln.s)
           /\ Len(pipe[ln.s]) < PipeCap
           /\ pipe' = [pipe EXCEPT ![ln.s] = Append(@, [idx |-> child_ip + 1, utf8 |-> ln.utf8])]
           /\ wrote' = [wrote EXCEPT ![ln.s] = Append(@, child_ip + 1)]
    /\ child_ip' = child_ip + 1
    /\ UNCHANGED <<msg_q, rc_cmd, rc_pc, rc_status, rc_result, script, child,
                   child_status, reader>>
    /\ RunFrame

\* the child writes to a pipe whose read end is closed: the write fails
\* (EPIPE) and the child goes on, or SIGPIPE ends the child
ChildWriteClosed ==
    /\ child = "running"
    /\ child_ip < Len(script)
    /\ ~ReadEndOpen(script[child_ip + 1].s)
    /\ \/ /\ child_ip' = child_ip + 1
          /\ UNCHANGED <<child, child_status>>
       \/ /\ child' = "exited"
          /\ child_status' = Signalled(SIGPIPE)
          /\ UNCHANGED child_ip
    /\ UNCHANGED <<msg_q, rc_cmd, rc_pc, rc_status, rc_result, script, wrote,
                   pipe, reader>>
    /\ RunFrame

\* the child has written everything and exits
ChildExit ==
    /\ child = "running"
    /\ child_ip = Len(script)
    /\ child' = "exited"
    /\ child_status' \in ExitStatuses
    /\ UNCHANGED <<msg_q, rc_cmd, rc_pc, rc_status, rc_result, script, child_ip,
                   wrote, pipe, reader>>
    /\ RunFrame

\* process.rs:58-70, one iteration of `while let Ok(Some(line))`: next_line
\* yields a line (forwarded) or an error on invalid UTF-8 (the loop ends and
\* the read end is dropped)
ReaderLine(s) ==
    /\ ReaderMayRun(s)
    /\ pipe[s] # <<>>
    /\ IF Head(pipe[s]).utf8
       THEN /\ msg_q' = Append(msg_q, LogLine(s, Head(pipe[s]).idx))
            /\ pipe' = [pipe EXCEPT ![s] = Tail(@)]
            /\ UNCHANGED reader
       ELSE /\ reader' = [reader EXCEPT ![s] = "error"]
            /\ pipe' = [pipe EXCEPT ![s] = <<>>]
            /\ UNCHANGED msg_q
    /\ UNCHANGED <<rc_cmd, rc_pc, rc_status, rc_result, script, child, child_ip,
                   child_status, wrote>>
    /\ RunFrame

\* process.rs:58-70, next_line yields Ok(None): the pipe is empty and its
\* write end is closed
ReaderEof(s) ==
    /\ ReaderMayRun(s)
    /\ pipe[s] = <<>>
    /\ child = "exited"
    /\ reader' = [reader EXCEPT ![s] = "eof"]
    /\ UNCHANGED <<msg_q, rc_cmd, rc_pc, rc_status, rc_result, script, child,
                   child_ip, child_status, wrote, pipe>>
    /\ RunFrame

NextRun ==
    \/ RcAnnounce
    \/ RcSpawnOk
    \/ RcSpawnFail
    \/ RcSpawnStdout
    \/ RcSpawnStderr
    \/ RcWait
    \/ RcWaitFail
    \/ RcJoinStdout
    \/ RcJoinStderr
    \/ CallerAfter
    \/ DropTask
    \/ ChildWrite
    \/ ChildWriteClosed
    \/ ChildExit
    \/ \E s \in Streams : ReaderLine(s)
    \/ \E s \in Streams : ReaderEof(s)

SpecRun == InitRun /\ [][NextRun]_vars

\* the scheduler runs every spawned task and the OS runs the child; failures
\* (spawn, wait) and the drop of the owning task are not forced to happen
FairRun ==
    /\ SpecRun
    /\ WF_vars(RcAnnounce)
    /\ WF_vars(RcSpawnOk \/ RcSpawnFail)
    /\ WF_vars(RcSpawnStdout)
    /\ WF_vars(RcSpawnStderr)
    /\ WF_vars(RcWait)
    /\ WF_vars(RcJoinStdout)
    /\ WF_vars(RcJoinStderr)
    /\ WF_vars(CallerAfter)
    /\ WF_vars(ChildWrite)
    /\ WF_vars(ChildWriteClosed)
    /\ WF_vars(ChildExit)
    /\ \A s \in Streams : WF_vars(ReaderLine(s))
    /\ \A s \in Streams : WF_vars(ReaderEof(s))

-----------------------------------------------------------------------------
(* run_command: properties *)

Returned == rc_pc \in {"returned", "after"}

\* the line indexes forwarded to the message channel for stream s, in order
Forwarded(s) ==
    LET IsLine(m) == m.kind = "Log" /\ m.src = s
        lines == SelectSeq(msg_q, IsLine)
    IN  [i \in 1..Len(lines) |-> lines[i].val]

IsPrefix(a, b) == Len(a) <= Len(b) /\ \A i \in 1..Len(a) : a[i] = b[i]

\* C1: run_command returns Ok exactly when wait() reported exit code 0; for a
\* non-zero code c the error message contains the decimal c and the command,
\* for a signal death it contains "signal" and the command.
C1_ExitStatusResult ==
    Returned =>
        /\ rc_status # NoStatus => (child = "exited" /\ rc_status = child_status)
        /\ (rc_result.kind = "ok") <=> (rc_status = Exited(0))
        /\ (rc_status.kind = "code" /\ rc_status.code # 0) =>
               /\ rc_result.kind = "err"
               /\ Contains(rc_result.msg, to_string(rc_status.code))
               /\ Contains(rc_result.msg, rc_cmd)
        /\ rc_status.kind = "signal" =>
               /\ rc_result.kind = "err"
               /\ Contains(rc_result.msg, StrSignal)
               /\ Contains(rc_result.msg, rc_cmd)

C1_Witness ==
    /\ Returned
    /\ rc_status = Exited(17)
    /\ rc_cmd = <<"l", "s">>
    /\ rc_result.kind = "err"

\* C2 (as claimed): the announcement is in the channel before the child exists;
\* when run_command returns after a successful wait both drain tasks have
\* reached end-of-stream; every output line lies after the announcement and
\* before the caller's next message.
C2_DrainedBeforeReturn ==
    /\ child # "none" => (Len(msg_q) >= 1 /\ msg_q[1] = LogAnnounce)
    /\ (Returned /\ rc_status # NoStatus) =>
           \A s \in Streams : reader[s] = "eof"
    /\ (rc_pc = "after" /\ rc_status # NoStatus) =>
           \A i \in 1..Len(msg_q) :
               msg_q[i].src \in Streams => (1 < i /\ i < Len(msg_q))

\* C3: the two drain tasks run independently, so a child blocked on a full pipe
\* always has a reader on that pipe (running, or about to be spawned), and
\* every run_command ends.
ChildBlockedOn(s) ==
    /\ child = "running"
    /\ child_ip < Len(script)
    /\ script[child_ip + 1].s = s
    /\ ReadEndOpen(s)
    /\ Len(pipe[s]) >= PipeCap

C3_NoPipeDeadlock ==
    /\ [](\A s \in Streams :
            ChildBlockedOn(s) =>
                (ReaderMayRun(s) \/ rc_pc \in {"spawn_stdout", "spawn_stderr"}))
    /\ <>(rc_pc \in {"returned", "after", "dropped"})

C3_Witness ==
    /\ ChildBlockedOn("stderr")
    /\ reader["stdout"] = "running"
    /\ reader["stderr"] = "running"
    /\ rc_pc = "wait"

\* C4 (as claimed): per stream the forwarded lines are a prefix of the written
\* ones (order, no duplicates) and, once the drain task has ended, all of them.
C4_EveryLineOnce ==
    \A s \in Streams :
        /\ IsPrefix(Forwarded(s), wrote[s])
        /\ reader[s] \in {"eof", "error"} => Forwarded(s) = wrote[s]

\* C5: once the owning task is dropped the child is not running.
C5_KilledOnDrop == rc_pc = "dropped" => child # "running"

C5_Witness ==
    /\ rc_pc = "dropped"
    /\ child = "exited"
    /\ child_status = Signalled(SIGKILL)
    /\ child_ip < Len(script)

-----------------------------------------------------------------------------
(***************************************************************************)
(* process.rs: probe                                                       *)
(***************************************************************************)
None_    == [some |-> FALSE, val |-> <<>>]
Some_(v) == [some |-> TRUE, val |-> v]

BadByte == "\\xFF"          \* a byte that is not valid UTF-8
White   == {" ", "\n"}
OutChars == {" ", "\n", "v", BadByte}

ProbeCmds == {<<>>, <<"rustc", "--version">>}
ProbeStatuses == {Exited(0), Exited(1), Signalled(SIGKILL)}

\* String::from_utf8(..).ok()
from_utf8(bytes) ==
    IF \E i \in 1..Len(bytes) : bytes[i] = BadByte THEN None_ ELSE Some_(bytes)

\* str::trim
RECURSIVE trim_start(_)
trim_start(t) ==
    IF t # <<>> /\ Head(t) \in White THEN trim_start(Tail(t)) ELSE t

RECURSIVE trim_end(_)
trim_end(t) ==
    IF t # <<>> /\ t[Len(t)] \in White THEN trim_end(SubSeq(t, 1, Len(t) - 1)) ELSE t

trim(t) == trim_end(trim_start(t))

\* process.rs:97-116; in.started: Command::output() ran the program to its end
probe_ignoring_status(in) ==
    IF in.cmd = <<>> THEN None_
    ELSE IF ~in.started THEN None_
    ELSE LET text == from_utf8(in.out)
         IN  IF ~text.some THEN None_
             ELSE IF trim(text.val) = <<>> THEN None_ ELSE Some_(trim(text.val))

probe(in) ==
    IF in.cmd = <<>> THEN None_
    ELSE IF ~in.started THEN None_
    ELSE IF ~StatusSuccess(in.status) THEN None_
    ELSE LET text == from_utf8(in.out)
         IN  IF ~text.some THEN None_
             ELSE IF trim(text.val) = <<>> THEN None_ ELSE Some_(trim(text.val))

RunIdle ==
    /\ rc_cmd = <<>>
    /\ rc_pc = "off"
    /\ rc_status = NoStatus
    /\ rc_result = NoResult
    /\ script = <<>>
    /\ child = "none"
    /\ child_ip = 0
    /\ child_status = NoStatus
    /\ wrote = [s \in Streams |-> <<>>]
    /\ pipe = [s \in Streams |-> <<>>]
    /\ reader = [s \in Streams |-> "unspawned"]

InitProbe ==
    /\ msg_q = <<>>
    /\ pr_pc = "call"
    /\ pr_in \in [cmd : ProbeCmds, started : BOOLEAN, status : ProbeStatuses,
                  out : SeqsUpTo(OutChars, MaxOut)]
    /\ pr_result = None_
    /\ RunIdle
    /\ BusIdle
    /\ DepsIdle
    /\ CmpIdle
    /\ VerIdle
    /\ AuxIdle

ProbeCall ==
    /\ pr_pc = "call"
    /\ pr_result' = probe(pr_in)
    /\ pr_pc' = "done"
    /\ UNCHANGED <<msg_q, pr_in, runVars, busVars, depsVars, cmpVars, verVars, auxVars>>

NextProbe == ProbeCall

SpecProbe == InitProbe /\ [][NextProbe]_vars

\* v is t without its leading and trailing whitespace
IsTrimOf(v, t) ==
    /\ v # <<>> => (v[1] \notin White /\ v[Len(v)] \notin White)
    /\ \E i \in 0..Len(t) :
          /\ i + Len(v) <= Len(t)
          /\ \A k \in 1..i : t[k] \in White
          /\ \A k \in 1..Len(v) : t[i + k] = v[k]
          /\ \A k \in (i + Len(v) + 1)..Len(t) : t[k] \in White

\* C6: probe returns the trimmed standard output exactly when the command is
\* non-empty, the program ran, exited with status 0 and printed valid text
\* that is non-empty after trimming; otherwise nothing; it sends no message.
C6_ProbeResult ==
    pr_pc = "done" =>
        LET good == /\ pr_in.cmd # <<>>
                    /\ pr_in.started
                    /\ pr_in.status = Exited(0)
                    /\ \A i \in 1..Len(pr_in.out) : pr_in.out[i] # BadByte
                    /\ \E i \in 1..Len(pr_in.out) : pr_in.out[i] \notin White
        IN  /\ pr_result.some <=> good
            /\ pr_result.some => (pr_result.val # <<>> /\ IsTrimOf(pr_result.val, pr_in.out))
            /\ msg_q = <<>>

C6_Witness ==
    /\ pr_pc = "done"
    /\ pr_in.out = <<" ", "v", "\n">>
    /\ pr_result = Some_(<<"v">>)

-----------------------------------------------------------------------------
(***************************************************************************)
(* app.rs: the observer (eframe update loop), messages.rs: the two         *)
(* channels, deps.rs: ask_confirm, and the tasks that use them.            *)
(***************************************************************************)
NoModal         == [kind |-> "None", req |-> 0]
AlertModal      == [kind |-> "Alert", req |-> 0]
ConfirmModal(r) == [kind |-> "Confirm", req |-> r]

Msg(k, from, v) == [kind |-> k, src |-> from, val |-> v]

Range(q) == {q[i] : i \in 1..Len(q)}

\* dropping the oneshot::Sender of a slot nobody has replied to
DropSender(st) == IF st = "open" THEN "dropped" ELSE st

\* deps.rs:267, response_rx.await.unwrap_or(false)
await_reply_default_yes(st) == IF st = "no" THEN "no" ELSE "yes"

await_reply(st) == IF st = "yes" THEN "yes" ELSE "no"

\* app.rs:240, the confirm channel is polled only without a modal
MayPollConfirmAlways(m) == TRUE

MayPollConfirm(m) == m.kind = "None"

\* app.rs:214 and 241, try_recv returns at once whatever the channel holds
RecvReturnsBlocking(q) == q # <<>>

RecvReturns(q) == TRUE

\* the receiver of the message channel exists
MsgRxAlive == obs_pc # "gone"

\* Sender::send(..).ok() on the unbounded message channel
CanSendRendezvous == obs_pc = "drain"

CanSend == ~MsgRxAlive \/ Len(msg_q) < MaxQueue

SendFirst(m) == msg_q' = IF MsgRxAlive THEN <<m>> \o msg_q ELSE msg_q

Send(m) == msg_q' = IF MsgRxAlive THEN Append(msg_q, m) ELSE msg_q

\* app.rs:342
loading(s) == s = <<>> \/ s = Placeholder

\* app.rs:343-358, the target whose selection is not ready, or "none"
not_ready(tgt, bv, ev) ==
    IF tgt \in {"Bitcoin", "Both"} /\ loading(bv) THEN "Bitcoin"
    ELSE IF tgt \in {"Electrs", "Both"} /\ loading(ev) THEN "Electrs"
    ELSE "none"

\* app.rs:219-221 and 225-227, the selection after a load
selected_after(sel, versions) == IF versions # <<>> THEN Head(versions) ELSE sel

\* app.rs:344-348 and 352-356
NotReadyModal == [kind |-> "Alert", req |-> 0, title |-> "Not Ready"]

\* app.rs:141-186 (BitForgeApp::new): no modal, not busy, version refresh
\* spawned; main.rs:42-43: both channels empty
InitBus ==
    /\ msg_q = <<>>
    /\ brew \in BOOLEAN
    /\ obs_pc = "idle"
    /\ modal = NoModal
    /\ is_busy = FALSE
    /\ progress = 0
    /\ polls = 0
    /\ confirm_q = <<>>
    /\ confirm_rx = TRUE
    /\ slot = [r \in 1..MaxRequests |-> "unused"]
    /\ replies = [r \in 1..MaxRequests |-> 0]
    /\ taken = {}
    /\ deferred = {}
    /\ next_req = 0
    /\ dep_pc = "off"
    /\ dep_req = 0
    /\ dep_answer = "none"
    /\ ref_pc = "start"
    /\ RunIdle
    /\ ProbeIdle
    /\ DepsIdle
    /\ CmpIdle
    /\ VerIdle
    /\ AuxIdle

BusFrame == UNCHANGED <<runVars, probeVars, depsVars, verVars, auxVars, brew, target,
                        bitcoin_ver, electrs_ver, src_exists, src_usable, cur, error_occurred,
                        output_dirs, ran, copied, pl_ret, probes, dirs>>

\* app.rs:778-779, a frame begins
ObsUpdate ==
    /\ obs_pc = "idle"
    /\ obs_pc' = "drain"
    /\ polls' = 0
    /\ deferred' = {r \in deferred : slot[r] = "open"}
    /\ UNCHANGED <<msg_q, modal, is_busy, progress, confirm_q, confirm_rx, slot,
                   replies, taken, next_req, dep_pc, dep_req, dep_answer, ref_pc, ck_pc>>
    /\ BusFrame

\* app.rs:233-236, the progress value after a TaskDone was drained
DoneProgressKept(p) == p

DoneProgress(p) == 0

\* app.rs:214-238, one iteration of `while let Ok(msg) = try_recv()`; the
\* lists a VersionsLoaded message carries are followed in SpecVersions
ObsRecv ==
    /\ obs_pc = "drain"
    /\ RecvReturns(msg_q)
    /\ msg_q # <<>>
    /\ LET m == Head(msg_q)
       IN  /\ msg_q' = Tail(msg_q)
           /\ modal' = IF m.kind = "ShowDialog" THEN AlertModal ELSE modal
           /\ slot' = IF m.kind = "ShowDialog" /\ modal.kind = "Confirm"
                      THEN [slot EXCEPT ![modal.req] = DropSender(@)]
                      ELSE slot
           /\ is_busy' = IF m.kind = "TaskDone" THEN FALSE ELSE is_busy
           /\ progress' = IF m.kind = "TaskDone" THEN DoneProgress(progress)
                          ELSE IF m.kind = "Progress"
                               THEN (IF m.val < 0 THEN 0 ELSE IF m.val > 100 THEN 100 ELSE m.val)
                               ELSE progress
    /\ UNCHANGED <<obs_pc, polls, confirm_q, confirm_rx, replies, taken, deferred,
                   next_req, dep_pc, dep_req, dep_answer, ref_pc, ck_pc>>
    /\ BusFrame

\* app.rs:214, try_recv finds the channel empty and the loop ends
ObsRecvEmpty ==
    /\ obs_pc = "drain"
    /\ RecvReturns(msg_q)
    /\ msg_q = <<>>
    /\ obs_pc' = "confirm"
    /\ UNCHANGED <<msg_q, modal, is_busy, progress, polls, confirm_q, confirm_rx,
                   slot, replies, taken, deferred, next_req, dep_pc, dep_req, dep_answer,
                   ref_pc, ck_pc>>
    /\ BusFrame

\* app.rs:240-248
ObsConfirmPoll ==
    /\ obs_pc = "confirm"
    /\ IF MayPollConfirm(modal)
       THEN /\ RecvReturns(confirm_q)
            /\ polls' = polls + 1
            /\ IF confirm_q # <<>>
               THEN /\ modal' = ConfirmModal(Head(confirm_q))
                    /\ slot' = IF modal.kind = "Confirm"
                               THEN [slot EXCEPT ![modal.req] = DropSender(@)]
                               ELSE slot
                    /\ taken' = taken \cup {Head(confirm_q)}
                    /\ confirm_q' = Tail(confirm_q)
               ELSE UNCHANGED <<modal, slot, taken, confirm_q>>
            /\ UNCHANGED deferred
       ELSE /\ deferred' = deferred \cup Range(confirm_q)
            /\ UNCHANGED <<polls, modal, slot, taken, confirm_q>>
    /\ obs_pc' = "modal"
    /\ UNCHANGED <<msg_q, is_busy, progress, confirm_rx, replies, next_req,
                   dep_pc, dep_req, dep_answer, ref_pc, ck_pc>>
    /\ BusFrame

\* app.rs:428-510; click: "none", "ok" (Alert), "yes" / "no" (Confirm)
ObsRenderModal ==
    /\ obs_pc = "modal"
    /\ \E click \in {"none", "ok", "yes", "no"} :
          /\ click = "ok" => modal.kind = "Alert"
          /\ click \in {"yes", "no"} => modal.kind = "Confirm"
          /\ modal' = IF click = "none" THEN modal ELSE NoModal
          /\ IF click \in {"yes", "no"} /\ slot[modal.req] = "open"
             THEN /\ slot' = [slot EXCEPT ![modal.req] = click]
                  /\ replies' = [replies EXCEPT ![modal.req] = @ + 1]
             ELSE UNCHANGED <<slot, replies>>
    /\ obs_pc' = "content"
    /\ UNCHANGED <<msg_q, is_busy, progress, polls, confirm_q, confirm_rx, taken, deferred,
                   next_req, dep_pc, dep_req, dep_answer, ref_pc, ck_pc>>
    /\ BusFrame

\* app.rs:544 and 717-718, add_enabled(!self.is_busy, ..) on both start buttons
StartEnabledAlways(busy) == TRUE

StartEnabled(busy) == ~busy

\* app.rs:514-734 with spawn_check_deps (253-286), spawn_compile (335-366)
\* and spawn_refresh_*_versions (288-328); the frame ends. `clicks` are the
\* buttons the user operates.
ObsRenderContent(clicks) ==
    /\ obs_pc = "content"
    /\ \E click \in clicks :
          LET alert == IF click = "check" /\ ~brew THEN AlertModal
                       ELSE IF click = "compile" /\
                               not_ready(target, selected_bitcoin, selected_electrs) # "none"
                            THEN NotReadyModal
                            ELSE NoModal
              spawns == click \in {"check", "compile"} /\ alert = NoModal
          IN  /\ click \in {"check", "compile"} => StartEnabled(is_busy)
              \* one version-refresh task at a time is followed
              /\ click = "refresh" => ref_pc \in {"off", "done"}
              /\ modal' = IF alert # NoModal THEN alert ELSE modal
              /\ slot' = IF alert # NoModal /\ modal.kind = "Confirm"
                         THEN [slot EXCEPT ![modal.req] = DropSender(@)]
                         ELSE slot
              /\ is_busy' = IF spawns THEN TRUE ELSE is_busy
              /\ progress' = IF spawns /\ click = "compile" THEN 0 ELSE progress
              /\ dep_pc' = IF spawns /\ click = "check" THEN "check" ELSE dep_pc
              /\ dep_req' = IF spawns /\ click = "check" THEN 0 ELSE dep_req
              /\ dep_answer' = IF spawns /\ click = "check" THEN "none" ELSE dep_answer
              /\ ck_pc' = IF spawns /\ click = "compile" THEN "start" ELSE ck_pc
              /\ ref_pc' = IF click = "refresh" THEN "start" ELSE ref_pc
    /\ obs_pc' = "idle"
    /\ UNCHANGED <<msg_q, polls, confirm_q, confirm_rx, replies, taken, deferred,
                   next_req>>
    /\ BusFrame

\* The window closes and BitForgeApp is dropped: the modal, both receivers
\* and everything still queued go with it.
ObsTeardown ==
    /\ obs_pc = "idle"
    /\ obs_pc' = "gone"
    /\ modal' = NoModal
    /\ msg_q' = <<>>
    /\ confirm_q' = <<>>
    /\ confirm_rx' = FALSE
    /\ slot' = [r \in 1..MaxRequests |->
                  IF r \in Range(confirm_q) \/ modal = ConfirmModal(r)
                  THEN DropSender(slot[r]) ELSE slot[r]]
    /\ UNCHANGED <<is_busy, progress, polls, replies, taken, deferred, next_req, dep_pc,
                   dep_req, dep_answer, ref_pc, ck_pc>>
    /\ BusFrame

\* deps.rs:32-56, the package scan: log lines, then missing or not
DepCheck ==
    /\ dep_pc = "check"
    /\ CanSend
    /\ Send(Msg("Log", "deps", 0))
    /\ \E any_missing \in BOOLEAN :
          /\ any_missing => next_req < MaxRequests
          /\ dep_pc' = IF any_missing THEN "ask" ELSE "rust"
    /\ UNCHANGED <<obs_pc, modal, is_busy, progress, polls, confirm_q, confirm_rx,
                   slot, replies, taken, deferred, next_req, dep_req, dep_answer, ref_pc, ck_pc>>
    /\ BusFrame

\* deps.rs:260-266, ask_confirm creates the slot and sends the request; a
\* request the channel rejects is dropped on the spot
AskSend ==
    /\ dep_pc = "ask"
    /\ next_req < MaxRequests
    /\ LET r == next_req + 1
       IN  /\ next_req' = r
           /\ dep_req' = r
           /\ IF confirm_rx
              THEN /\ confirm_q' = Append(confirm_q, r)
                   /\ slot' = [slot EXCEPT ![r] = "open"]
              ELSE /\ UNCHANGED confirm_q
                   /\ slot' = [slot EXCEPT ![r] = DropSender("open")]
    /\ dep_pc' = "ask_wait"
    /\ UNCHANGED <<msg_q, obs_pc, modal, is_busy, progress, polls, confirm_rx,
                   replies, taken, deferred, dep_answer, ref_pc, ck_pc>>
    /\ BusFrame

\* deps.rs:267, response_rx.await completes
AskReturn ==
    /\ dep_pc = "ask_wait"
    /\ slot[dep_req] \in {"yes", "no", "dropped"}
    /\ dep_answer' = await_reply(slot[dep_req])
    /\ dep_pc' = "answered"
    /\ UNCHANGED <<msg_q, obs_pc, modal, is_busy, progress, polls, confirm_q,
                   confirm_rx, slot, replies, taken, deferred, next_req, dep_req, ref_pc,
                   ck_pc>>
    /\ BusFrame

\* deps.rs:89-114, install (a failed install shows a dialog) or warn
DepAnswered ==
    /\ dep_pc = "answered"
    /\ CanSend
    /\ \E failed \in BOOLEAN :
          /\ failed => dep_answer = "yes"
          /\ Send(IF failed THEN Msg("ShowDialog", "deps", 0) ELSE Msg("Log", "deps", 0))
    /\ dep_pc' = "rust"
    /\ UNCHANGED <<obs_pc, modal, is_busy, progress, polls, confirm_q, confirm_rx,
                   slot, replies, taken, deferred, next_req, dep_req, dep_answer, ref_pc, ck_pc>>
    /\ BusFrame

\* deps.rs:120-147, the toolchain check ends with the "Dependency Check" dialog
DepRust ==
    /\ dep_pc = "rust"
    /\ CanSend
    /\ Send(Msg("ShowDialog", "deps", 0))
    /\ dep_pc' = "task_done"
    /\ UNCHANGED <<obs_pc, modal, is_busy, progress, polls, confirm_q, confirm_rx,
                   slot, replies, taken, deferred, next_req, dep_req, dep_answer, ref_pc, ck_pc>>
    /\ BusFrame

\* app.rs:284
DepTaskDone ==
    /\ dep_pc = "task_done"
    /\ CanSend
    /\ Send(Msg("TaskDone", "deps", 0))
    /\ dep_pc' = "done"
    /\ UNCHANGED <<obs_pc, modal, is_busy, progress, polls, confirm_q, confirm_rx,
                   slot, replies, taken, deferred, next_req, dep_req, dep_answer, ref_pc, ck_pc>>
    /\ BusFrame

\* app.rs:291 / 312
RefStart ==
    /\ ref_pc = "start"
    /\ CanSend
    /\ Send(Msg("Log", "refresh", 0))
    /\ ref_pc' = "fetch"
    /\ UNCHANGED <<obs_pc, modal, is_busy, progress, polls, confirm_q, confirm_rx,
                   slot, replies, taken, deferred, next_req, dep_pc, dep_req, dep_answer, ck_pc>>
    /\ BusFrame

\* app.rs:292-298 / 313-319, the fetch ends and its outcome is logged
RefFetched ==
    /\ ref_pc = "fetch"
    /\ CanSend
    /\ Send(Msg("Log", "refresh", 0))
    /\ \E ok \in BOOLEAN : ref_pc' = IF ok THEN "loaded" ELSE "failed"
    /\ UNCHANGED <<obs_pc, modal, is_busy, progress, polls, confirm_q, confirm_rx,
                   slot, replies, taken, deferred, next_req, dep_pc, dep_req, dep_answer, ck_pc>>
    /\ BusFrame

\* app.rs:295 / 316 (versions) and 299-303 / 320-324 (Network Error dialog)
RefReport ==
    /\ ref_pc \in {"loaded", "failed"}
    /\ CanSend
    /\ Send(IF ref_pc = "loaded" THEN Msg("VersionsLoaded", "refresh", 0)
            ELSE Msg("ShowDialog", "refresh", 0))
    /\ ref_pc' = "done"
    /\ UNCHANGED <<obs_pc, modal, is_busy, progress, polls, confirm_q, confirm_rx,
                   slot, replies, taken, deferred, next_req, dep_pc, dep_req, dep_answer, ck_pc>>
    /\ BusFrame

\* The runtime goes down with the observer: a task suspended at an await is
\* dropped there.
TaskCancel ==
    /\ obs_pc = "gone"
    /\ \/ /\ dep_pc = "ask_wait"
          /\ dep_pc' = "cancelled"
          /\ UNCHANGED ref_pc
       \/ /\ ref_pc = "fetch"
          /\ ref_pc' = "cancelled"
          /\ UNCHANGED dep_pc
    /\ UNCHANGED <<msg_q, obs_pc, modal, is_busy, progress, polls, confirm_q,
                   confirm_rx, slot, replies, taken, deferred, next_req, dep_req,
                   dep_answer, ck_pc>>
    /\ BusFrame

NextBus ==
    \/ ObsUpdate
    \/ ObsRecv
    \/ ObsRecvEmpty
    \/ ObsConfirmPoll
    \/ ObsRenderModal
    \/ ObsRenderContent({"none", "check", "refresh"})
    \/ ObsTeardown
    \/ DepCheck
    \/ AskSend
    \/ AskReturn
    \/ DepAnswered
    \/ DepRust
    \/ DepTaskDone
    \/ RefStart
    \/ RefFetched
    \/ RefReport
    \/ TaskCancel

SpecBus == InitBus /\ [][NextBus]_vars

-----------------------------------------------------------------------------
(***************************************************************************)
(* app.rs: the observer with the dependency task and the compile task      *)
(***************************************************************************)
\* BitForgeApp after the start-up refresh has ended: the Bitcoin list was
\* loaded (app.rs:218-223) or the fetch failed and the placeholder stays
InitApp ==
    /\ msg_q = <<>>
    /\ brew \in BOOLEAN
    /\ obs_pc = "idle"
    /\ modal = NoModal
    /\ is_busy = FALSE
    /\ progress = 0
    /\ polls = 0
    /\ confirm_q = <<>>
    /\ confirm_rx = TRUE
    /\ slot = [r \in 1..MaxRequests |-> "unused"]
    /\ replies = [r \in 1..MaxRequests |-> 0]
    /\ taken = {}
    /\ deferred = {}
    /\ next_req = 0
    /\ dep_pc = "off"
    /\ dep_req = 0
    /\ dep_answer = "none"
    /\ ref_pc = "done"
    /\ \E versions \in {<<Placeholder>>, <<<<"v", "2", "7", ".", "0">>>>} :
          /\ bitcoin_versions = versions
          /\ selected_bitcoin = Head(versions)
    /\ electrs_versions = <<Placeholder>>
    /\ selected_electrs = Placeholder
    /\ RunIdle
    /\ ProbeIdle
    /\ DepsIdle
    /\ CmpIdle
    /\ AuxIdle

\* app.rs:378-405, where the task goes after its pipelines: a failed one has
\* sent its "Compilation Failed" dialog and skips the completion report
AfterPipelinesLost(ok) == IF ok THEN "report" ELSE "done"

AfterPipelines(ok) == IF ok THEN "report" ELSE "task_done"

\* app.rs:367
CtStart ==
    /\ ck_pc = "start"
    /\ CanSend
    /\ Send(Msg("Progress", "compile", 5))
    /\ ck_pc' = "pipelines"
    /\ UNCHANGED <<obs_pc, modal, is_busy, progress, polls, confirm_q, confirm_rx,
                   slot, replies, taken, deferred, next_req, dep_pc, dep_req,
                   dep_answer, ref_pc>>
    /\ BusFrame

\* app.rs:371-407, the requested pipelines ran (every child ended): all
\* succeeded and Progress(1.0) is sent (410), or one failed and its
\* "Compilation Failed" dialog is sent (379-384, 398-403)
CtPipelines ==
    /\ ck_pc = "pipelines"
    /\ CanSend
    /\ \E ok \in BOOLEAN :
          /\ Send(IF ok THEN Msg("Progress", "compile", 100)
                  ELSE Msg("ShowDialog", "compile", 0))
          /\ ck_pc' = AfterPipelines(ok)
    /\ UNCHANGED <<obs_pc, modal, is_busy, progress, polls, confirm_q, confirm_rx,
                   slot, replies, taken, deferred, next_req, dep_pc, dep_req,
                   dep_answer, ref_pc>>
    /\ BusFrame

\* app.rs:411-419, the "Compilation Complete" dialog
CtReport ==
    /\ ck_pc = "report"
    /\ CanSend
    /\ Send(Msg("ShowDialog", "compile", 0))
    /\ ck_pc' = "task_done"
    /\ UNCHANGED <<obs_pc, modal, is_busy, progress, polls, confirm_q, confirm_rx,
                   slot, replies, taken, deferred, next_req, dep_pc, dep_req,
                   dep_answer, ref_pc>>
    /\ BusFrame

\* app.rs:422
CtTaskDone ==
    /\ ck_pc = "task_done"
    /\ CanSend
    /\ Send(Msg("TaskDone", "compile", 0))
    /\ ck_pc' = "done"
    /\ UNCHANGED <<obs_pc, modal, is_busy, progress, polls, confirm_q, confirm_rx,
                   slot, replies, taken, deferred, next_req, dep_pc, dep_req,
                   dep_answer, ref_pc>>
    /\ BusFrame

\* The runtime goes down with the observer: a compile task suspended at the
\* await of a run_command is dropped there.
CtCancel ==
    /\ obs_pc = "gone"
    /\ ck_pc = "pipelines"
    /\ ck_pc' = "cancelled"
    /\ UNCHANGED <<msg_q, obs_pc, modal, is_busy, progress, polls, confirm_q,
                   confirm_rx, slot, replies, taken, deferred, next_req, dep_pc,
                   dep_req, dep_answer, ref_pc>>
    /\ BusFrame

DepSteps == DepCheck \/ AskSend \/ AskReturn \/ DepAnswered \/ DepRust \/ DepTaskDone

CtSteps == CtStart \/ CtPipelines \/ CtReport \/ CtTaskDone

\* app.rs:428-510, the user closes the modal that is shown
ModalClosed == ObsRenderModal /\ modal # NoModal /\ modal' = NoModal

NextApp ==
    \/ ObsUpdate
    \/ ObsRecv
    \/ ObsRecvEmpty
    \/ ObsConfirmPoll
    \/ ObsRenderModal
    \/ ObsRenderContent({"none", "check", "compile"})
    \/ ObsTeardown
    \/ DepCheck
    \/ AskSend
    \/ AskReturn
    \/ DepAnswered
    \/ DepRust
    \/ DepTaskDone
    \/ CtStart
    \/ CtPipelines
    \/ CtReport
    \/ CtTaskDone
    \/ TaskCancel
    \/ CtCancel

SpecApp == InitApp /\ [][NextApp]_vars

\* app.rs:825-829: while a task runs the observer asks for the next frame, so
\* frames keep coming; the runtime keeps polling a task that can go on; and a
\* modal that keeps being shown is closed by the user in the end.
FairApp ==
    /\ SpecApp
    /\ WF_vars(ObsUpdate)
    /\ WF_vars(ObsRecv)
    /\ WF_vars(ObsRecvEmpty)
    /\ WF_vars(ObsConfirmPoll)
    /\ WF_vars(ObsRenderModal)
    /\ WF_vars(ObsRenderContent({"none", "check", "compile"}))
    /\ WF_vars(DepSteps)
    /\ WF_vars(CtSteps)
    /\ SF_vars(ModalClosed)

-----------------------------------------------------------------------------
(* observer and channels: properties *)

ObserverAlive == obs_pc # "gone"

\* request r is in the hands of a live holder: queued for a live receiver or
\* shown as the Confirm modal
Held(r) == (confirm_rx /\ r \in Range(confirm_q)) \/ modal = ConfirmModal(r)

\* C7: a task waiting on a ConfirmRequest is never stuck on a dropped slot: a
\* slot nobody holds any more is resolved (replied or dropped), a resolved slot
\* lets ask_confirm complete, and a dropped slot makes it return false.
C7_DroppedSlotMeansNo ==
    /\ (dep_pc = "ask_wait" /\ ~Held(dep_req)) => slot[dep_req] # "open"
    /\ (dep_pc = "ask_wait" /\ slot[dep_req] # "open") => ENABLED AskReturn
    /\ (dep_pc = "answered" /\ slot[dep_req] = "dropped") => dep_answer = "no"

C7_Witness ==
    /\ dep_pc = "answered"
    /\ slot[dep_req] = "dropped"
    /\ dep_answer = "no"
    /\ ~confirm_rx

\* C8 (as claimed): a request is queued at most once, and every request the
\* observer took and no longer displays got exactly one reply.
C8_AnsweredExactlyOnce ==
    /\ \A i, j \in 1..Len(confirm_q) : confirm_q[i] = confirm_q[j] => i = j
    /\ \A r \in taken : r \notin Range(confirm_q) /\ replies[r] <= 1
    /\ ObserverAlive =>
           \A r \in taken : modal # ConfirmModal(r) => replies[r] = 1

\* C9: while a modal is displayed no request leaves the confirm channel and
\* no queued request takes the modal's place; a request is taken only into an
\* empty modal.
C9_OneModal ==
    [][ /\ (modal # NoModal /\ ObserverAlive') =>
              /\ IsPrefix(confirm_q, confirm_q')
              /\ modal'.kind = "Confirm" => modal' = modal
        /\ taken' # taken =>
              /\ modal = NoModal
              /\ confirm_q # <<>>
              /\ modal' = ConfirmModal(Head(confirm_q))
              /\ confirm_q' = Tail(confirm_q)
      ]_vars

C9_Witness ==
    \E r \in deferred :
        /\ r \in taken
        /\ replies[r] = 1
        /\ modal = NoModal

\* C10: the observer is never blocked inside drain_messages, whatever the
\* channels hold and whatever the tasks are doing, and a drain polls the
\* confirm channel at most once.
C10_ObserverNeverBlocks ==
    /\ obs_pc = "drain" => ENABLED (ObsRecv \/ ObsRecvEmpty)
    /\ (obs_pc = "drain" /\ msg_q = <<>>) => ENABLED ObsRecvEmpty
    /\ obs_pc = "confirm" => ENABLED ObsConfirmPoll
    /\ polls <= 1

C10_Witness ==
    /\ obs_pc = "modal"
    /\ polls = 1
    /\ dep_pc = "ask_wait"
    /\ modal = ConfirmModal(dep_req)
    /\ slot[dep_req] = "open"

\* the step appends a message of `task` to the message channel
SendsAs(task, kinds) ==
    /\ Len(msg_q') = Len(msg_q) + 1
    /\ msg_q'[Len(msg_q')].src = task
    /\ msg_q'[Len(msg_q')].kind \in kinds

MsgKinds == {"Log", "Progress", "VersionsLoaded", "ShowDialog", "TaskDone"}

\* C15: a dependency task and a compile task send TaskDone exactly once, as
\* their last message, whether they succeeded or failed: a task that has ended
\* sends nothing, it ends by sending TaskDone and sends TaskDone only to end.
\* So, with every ConfirmRequest answered or dropped, is_busy returns to false
\* after each task start for as long as the observer lives.
C15_TaskDoneOnceThenIdle ==
    /\ [][/\ SendsAs("deps", MsgKinds) => dep_pc # "done"
          /\ SendsAs("deps", {"TaskDone"}) => dep_pc' = "done"
          /\ (dep_pc' = "done" /\ dep_pc # "done" /\ ObserverAlive)
                => SendsAs("deps", {"TaskDone"})
          /\ SendsAs("compile", MsgKinds) => ck_pc # "done"
          /\ SendsAs("compile", {"TaskDone"}) => ck_pc' = "done"
          /\ (ck_pc' = "done" /\ ck_pc # "done" /\ ObserverAlive)
                => SendsAs("compile", {"TaskDone"})]_vars
    /\ (is_busy ~> (~is_busy \/ ~ObserverAlive))

\* both tasks ran to their end and the observer is interactive again
C15_Witness ==
    /\ ObserverAlive
    /\ dep_pc = "done"
    /\ ck_pc = "done"
    /\ ~is_busy
    /\ msg_q = <<>>
    /\ dep_answer = "no"

\* the task at position pc has been spawned and has not ended
InFlight(pc) == pc \notin {"off", "done", "cancelled"}

TaskDoneQueued == \E i \in 1..Len(msg_q) : msg_q[i].kind = "TaskDone"

\* a dependency or compile task is spawned by this step
TaskStarts ==
    \/ ~InFlight(dep_pc) /\ InFlight(dep_pc')
    \/ ~InFlight(ck_pc) /\ InFlight(ck_pc')

OneTaskInFlight ==
    /\ ~(InFlight(dep_pc) /\ InFlight(ck_pc))
    /\ (InFlight(dep_pc) \/ InFlight(ck_pc) \/ TaskDoneQueued) => is_busy
    /\ Cardinality({r \in 1..MaxRequests : slot[r] = "open"}) <= 1

\* C36: at most one dependency or compile task is in flight; is_busy holds
\* from the spawn until the task's TaskDone is drained; a task is started
\* only while is_busy is false; at most one ConfirmRequest is unanswered.
C36_OneTaskAtATime ==
    /\ []OneTaskInFlight
    /\ [][TaskStarts => (~is_busy /\ is_busy')]_vars
    /\ [][(is_busy /\ ~is_busy') => (Head(msg_q).kind = "TaskDone" /\ msg_q' = Tail(msg_q))]_vars

\* a compile task in flight after a dependency task that asked has ended
C36_Witness ==
    /\ InFlight(ck_pc)
    /\ dep_pc = "done"
    /\ is_busy
    /\ ~TaskDoneQueued
    /\ slot[1] \in {"yes", "no", "dropped"}

\* drain_messages takes a Progress message off the channel in this step
ReceivesProgress ==
    /\ ObsRecv
    /\ Head(msg_q).kind = "Progress"

\* drain_messages takes a TaskDone message off the channel in this step
ReceivesTaskDone ==
    /\ ObsRecv
    /\ Head(msg_q).kind = "TaskDone"

\* C40: whenever is_busy is false the progress value is 0, so the state
\* "not busy with progress 1.0" is never reached: draining a TaskDone sets
\* progress to 0 together with is_busy, and a Progress message is only ever
\* applied while is_busy is true.
C40_IdleMeansNoProgress ==
    /\ [](~is_busy => progress = 0)
    /\ [][ReceivesTaskDone => (~is_busy' /\ progress' = 0)]_vars
    /\ [][ReceivesProgress => (is_busy /\ is_busy')]_vars

\* the compile task ended and its TaskDone, queued behind its Progress
\* messages, was drained
C40_Witness ==
    /\ ck_pc = "done"
    /\ dep_pc = "off"
    /\ msg_q = <<>>
    /\ ~is_busy
    /\ progress = 0
    /\ obs_pc # "gone"

\* drain_messages takes a ShowDialog message off the channel in this step
ReceivesDialog ==
    /\ obs_pc = "drain"
    /\ msg_q # <<>>
    /\ Head(msg_q).kind = "ShowDialog"
    /\ msg_q' = Tail(msg_q)

\* C37: no notification is lost: a ShowDialog message that is received
\* becomes the modal, and it replaces no modal (Alert or Confirm) that is
\* displayed and that the user has not closed or answered.
C37_NoNotificationLost ==
    [][ReceivesDialog => (modal = NoModal /\ modal' = AlertModal)]_vars

-----------------------------------------------------------------------------
(***************************************************************************)
(* deps.rs: check_dependencies_task with check_rust_installation, run by   *)
(* the task of app.rs spawn_check_deps.  The messages the task sends       *)
(* accumulate in msg_q; the commands it runs change the environment.       *)
(***************************************************************************)
BREW_PACKAGES ==
    <<"automake", "libtool", "pkg-config", "boost", "miniupnpc", "zeromq",
      "sqlite", "python", "cmake", "llvm", "libevent", "rocksdb", "rust", "git">>

Catalogue == Range(BREW_PACKAGES)

\* the two tools of the Rust toolchain
Tools == {"rustc", "cargo"}

\* at most this many catalogue packages are absent when the task starts
MaxAbsent == 2

DepMsg(k, tag, pkg) == Msg(k, "deps", <<tag, pkg>>)

\* a command handed to run_command: by the install loop ("package") or by
\* check_rust_installation ("toolchain")
Install(site, pkg, res) == [site |-> site, pkg |-> pkg, res |-> res]

\* deps.rs:41-48, `brew list pkg` succeeds
brew_list(pkg) == pkg \in brew_has

\* deps.rs:159 / 167 / 227-228, probe(&[tool, "--version"]) returns Some
probe_tool(tool, path) == tool \in path

ProbeOutcome(b) == IF b THEN "ok" ELSE "absent"

\* deps.rs:59, the offer is made only when something is missing
MustOfferAlways(m) == TRUE

MustOffer(m) == m # <<>>

\* deps.rs:90-108, the loop goes on to the next package whatever the outcome
NextInstallAbort(i, ok) == IF ok THEN i + 1 ELSE Len(missing) + 1

NextInstall(i, ok) == i + 1

\* what a successful `brew install` does to the environment
AfterInstall(has, pkg) == has \cup {pkg}
PathsAfterInstall(path, pkg) == IF pkg = "rust" THEN {path, Tools} ELSE {path}

SendAll(ms) == msg_q' = msg_q \o ms

\* a probe of `tool --version` (process.rs probe) and whether it returned Some
Probed(tool, found) == [tool |-> tool, found |-> found]

InitDeps ==
    /\ msg_q = <<>>
    /\ brew_has \in {Catalogue \ a : a \in {x \in SUBSET Catalogue : Cardinality(x) <= MaxAbsent}}
    /\ path_has \in SUBSET Tools
    /\ cd_pc = "start"
    /\ cd_i = 0
    /\ missing = <<>>
    /\ asked = 0
    /\ cd_reply = "none"
    /\ should_install = FALSE
    /\ installs = <<>>
    /\ rustc_ok = FALSE
    /\ cargo_ok = FALSE
    /\ rust_ok = FALSE
    /\ last_probe = [t \in Tools |-> "none"]
    /\ probed = <<>>
    /\ cd_ret = "none"
    /\ RunIdle
    /\ ProbeIdle
    /\ BusIdle
    /\ CmpIdle
    /\ VerIdle
    /\ AuxIdle

DepsFrame == UNCHANGED <<runVars, probeVars, busVars, cmpVars, verVars, auxVars>>

\* deps.rs:32-36
CdStart ==
    /\ cd_pc = "start"
    /\ SendAll(<<DepMsg("Log", "checking", ""), DepMsg("Log", "brew_found", ""),
                 DepMsg("Log", "checking_packages", "")>>)
    /\ cd_pc' = "scan"
    /\ cd_i' = 1
    /\ UNCHANGED <<brew_has, path_has, missing, asked, cd_reply, should_install,
                   installs, rustc_ok, cargo_ok, rust_ok, last_probe, probed, cd_ret>>
    /\ DepsFrame

\* deps.rs:39-56, one iteration of the scan
CdScan ==
    /\ cd_pc = "scan"
    /\ LET pkg == BREW_PACKAGES[cd_i]
           ok  == brew_list(pkg)
       IN  /\ SendAll(<<DepMsg("Log", IF ok THEN "found" ELSE "not_installed", pkg)>>)
           /\ missing' = IF ok THEN missing ELSE Append(missing, pkg)
    /\ cd_i' = cd_i + 1
    /\ cd_pc' = IF cd_i = Len(BREW_PACKAGES) THEN "offer" ELSE "scan"
    /\ UNCHANGED <<brew_has, path_has, asked, cd_reply, should_install, installs,
                   rustc_ok, cargo_ok, rust_ok, last_probe, probed, cd_ret>>
    /\ DepsFrame

\* deps.rs:59-87 and 115-117 with ask_confirm (260-266)
CdOffer ==
    /\ cd_pc = "offer"
    /\ IF MustOffer(missing)
       THEN /\ SendAll(<<DepMsg("Log", "missing", "")>>)
            /\ asked' = asked + 1
            /\ cd_pc' = "ask_wait"
       ELSE /\ SendAll(<<DepMsg("Log", "all_installed", "")>>)
            /\ cd_pc' = "rust"
            /\ UNCHANGED asked
    /\ UNCHANGED <<brew_has, path_has, cd_i, missing, cd_reply, should_install,
                   installs, rustc_ok, cargo_ok, rust_ok, last_probe, probed, cd_ret>>
    /\ DepsFrame

\* deps.rs:267 and 86-90, 109-114: the reply slot resolves
CdReply ==
    /\ cd_pc = "ask_wait"
    /\ \E st \in {"yes", "no", "dropped"} :
          /\ cd_reply' = st
          /\ should_install' = (await_reply(st) = "yes")
    /\ IF should_install'
       THEN /\ cd_pc' = IF 1 <= Len(missing) THEN "install" ELSE "rust"
            /\ cd_i' = 1
            /\ UNCHANGED msg_q
       ELSE /\ SendAll(<<DepMsg("Log", "not_installed_warning", "")>>)
            /\ cd_pc' = "rust"
            /\ UNCHANGED cd_i
    /\ UNCHANGED <<brew_has, path_has, missing, asked, installs, rustc_ok, cargo_ok,
                   rust_ok, last_probe, probed, cd_ret>>
    /\ DepsFrame

\* deps.rs:91-95, run_command is called for the next missing package
CdInstallStart ==
    /\ cd_pc = "install"
    /\ LET pkg == missing[cd_i]
       IN  /\ SendAll(<<DepMsg("Log", "installing", pkg)>>)
           /\ installs' = Append(installs, Install("package", pkg, "running"))
    /\ cd_pc' = "install_wait"
    /\ UNCHANGED <<brew_has, path_has, cd_i, missing, asked, cd_reply, should_install,
                   rustc_ok, cargo_ok, rust_ok, last_probe, probed, cd_ret>>
    /\ DepsFrame

\* deps.rs:95-107, run_command returns
CdInstallEnd ==
    /\ cd_pc = "install_wait"
    /\ \E ok \in BOOLEAN :
         LET pkg == missing[cd_i]
         IN  /\ installs' = [installs EXCEPT ![Len(installs)].res =
                                 IF ok THEN "ok" ELSE "failed"]
             /\ SendAll(IF ok THEN <<DepMsg("Log", "installed", pkg)>>
                        ELSE <<DepMsg("Log", "install_failed", pkg),
                               DepMsg("ShowDialog", "install_failed", pkg)>>)
             /\ brew_has' = IF ok THEN AfterInstall(brew_has, pkg) ELSE brew_has
             /\ path_has' \in (IF ok THEN PathsAfterInstall(path_has, pkg) ELSE {path_has})
             /\ cd_i' = NextInstall(cd_i, ok)
             /\ cd_pc' = IF cd_i' <= Len(missing) THEN "install" ELSE "rust"
    /\ UNCHANGED <<missing, asked, cd_reply, should_install, rustc_ok, cargo_ok,
                   rust_ok, last_probe, probed, cd_ret>>
    /\ DepsFrame

\* deps.rs:157-165, check_rust_installation begins and probes rustc
CdProbeRustc ==
    /\ cd_pc = "rust"
    /\ LET found == probe_tool("rustc", path_has)
       IN  /\ rustc_ok' = found
           /\ last_probe' = [last_probe EXCEPT !["rustc"] = ProbeOutcome(found)]
           /\ probed' = Append(probed, Probed("rustc", found))
           /\ SendAll(<<DepMsg("Log", "checking_rust", ""),
                        DepMsg("Log", IF found THEN "rustc_found" ELSE "rustc_not_found", "")>>)
    /\ cd_pc' = "probe_cargo"
    /\ UNCHANGED <<brew_has, path_has, cd_i, missing, asked, cd_reply, should_install,
                   installs, cargo_ok, rust_ok, cd_ret>>
    /\ DepsFrame

\* deps.rs:167-177, the cargo probe; with both tools found the check is over
CdProbeCargo ==
    /\ cd_pc = "probe_cargo"
    /\ LET found == probe_tool("cargo", path_has)
       IN  /\ cargo_ok' = found
           /\ last_probe' = [last_probe EXCEPT !["cargo"] = ProbeOutcome(found)]
           /\ probed' = Append(probed, Probed("cargo", found))
           /\ SendAll(<<DepMsg("Log", IF found THEN "cargo_found" ELSE "cargo_not_found", "")>>)
           /\ rust_ok' = (rustc_ok /\ found)
           /\ cd_pc' = IF rustc_ok /\ found THEN "complete" ELSE "brew_info"
    /\ UNCHANGED <<brew_has, path_has, cd_i, missing, asked, cd_reply, should_install,
                   installs, rustc_ok, cd_ret>>
    /\ DepsFrame

\* deps.rs:180-207, `brew info rust`, then either the manual-install dialog
\* or run_command is called with `brew install rust`
CdBrewInfo ==
    /\ cd_pc = "brew_info"
    /\ \E brew_knows_rust \in BOOLEAN :
          IF ~brew_knows_rust
          THEN /\ SendAll(<<DepMsg("Log", "rust_incomplete", ""),
                            DepMsg("Log", "installing_rust", ""),
                            DepMsg("Log", "no_rust_formula", ""),
                            DepMsg("ShowDialog", "rust_installation_failed", "")>>)
               /\ cd_pc' = "complete"
               /\ UNCHANGED installs
          ELSE /\ SendAll(<<DepMsg("Log", "rust_incomplete", ""),
                            DepMsg("Log", "installing_rust", ""),
                            DepMsg("Log", "installing_rust_from_brew", "")>>)
               /\ installs' = Append(installs, Install("toolchain", "rust", "running"))
               /\ cd_pc' = "rust_install_wait"
    /\ rust_ok' = FALSE
    /\ UNCHANGED <<brew_has, path_has, cd_i, missing, asked, cd_reply, should_install,
                   rustc_ok, cargo_ok, last_probe, probed, cd_ret>>
    /\ DepsFrame

\* deps.rs:209-223: Err(e) returns false, Ok(()) goes on to the re-check
ReprobeAlways(ok) == TRUE

Reprobe(ok) == ok

\* deps.rs:207-223, run_command returns
CdRustInstallEnd ==
    /\ cd_pc = "rust_install_wait"
    /\ \E ok \in BOOLEAN :
          /\ installs' = [installs EXCEPT ![Len(installs)].res =
                              IF ok THEN "ok" ELSE "failed"]
          /\ SendAll(IF ok THEN <<DepMsg("Log", "verifying_rust", "")>>
                     ELSE <<DepMsg("Log", "rust_install_failed", ""),
                            DepMsg("ShowDialog", "installation_error", "")>>)
          /\ brew_has' = IF ok THEN AfterInstall(brew_has, "rust") ELSE brew_has
          /\ path_has' \in (IF ok THEN PathsAfterInstall(path_has, "rust") ELSE {path_has})
          /\ cd_pc' = IF Reprobe(ok) THEN "recheck" ELSE "complete"
    /\ UNCHANGED <<cd_i, missing, asked, cd_reply, should_install, rustc_ok, cargo_ok,
                   rust_ok, last_probe, probed, cd_ret>>
    /\ DepsFrame

\* deps.rs:226-249, both tools are probed once more
CdRecheck ==
    /\ cd_pc = "recheck"
    /\ LET r == probe_tool("rustc", path_has)
           c == probe_tool("cargo", path_has)
       IN  /\ last_probe' = [t \in Tools |-> ProbeOutcome(IF t = "rustc" THEN r ELSE c)]
           /\ probed' = probed \o <<Probed("rustc", r), Probed("cargo", c)>>
           /\ rust_ok' = (r /\ c)
           /\ SendAll(IF r /\ c
                      THEN <<DepMsg("Log", "rustc_installed", ""),
                             DepMsg("Log", "cargo_installed", "")>>
                      ELSE <<DepMsg("Log", "not_in_path", ""),
                             DepMsg("ShowDialog", "rust_installation", "")>>)
    /\ cd_pc' = "complete"
    /\ UNCHANGED <<brew_has, path_has, cd_i, missing, asked, cd_reply, should_install,
                   installs, rustc_ok, cargo_ok, cd_ret>>
    /\ DepsFrame

\* deps.rs:120-147, the closing log lines and dialog; Ok(rust_ok) is returned
CdComplete ==
    /\ cd_pc = "complete"
    /\ SendAll(IF rust_ok
               THEN <<DepMsg("Log", "complete", ""), DepMsg("Log", "rust_ready", ""),
                      DepMsg("ShowDialog", "all_ready", "")>>
               ELSE <<DepMsg("Log", "complete", ""), DepMsg("Log", "rust_attention", ""),
                      DepMsg("ShowDialog", "need_attention", "")>>)
    /\ cd_ret' = IF rust_ok THEN "Ok(true)" ELSE "Ok(false)"
    /\ cd_pc' = "task_done"
    /\ UNCHANGED <<brew_has, path_has, cd_i, missing, asked, cd_reply, should_install,
                   installs, rustc_ok, cargo_ok, rust_ok, last_probe, probed>>
    /\ DepsFrame

\* app.rs:274-284, the wrapper of spawn_check_deps: Ok(_) needs nothing more
CdTaskDone ==
    /\ cd_pc = "task_done"
    /\ SendAll(<<Msg("TaskDone", "deps", <<"", "">>)>>)
    /\ cd_pc' = "done"
    /\ UNCHANGED <<brew_has, path_has, cd_i, missing, asked, cd_reply, should_install,
                   installs, rustc_ok, cargo_ok, rust_ok, last_probe, probed, cd_ret>>
    /\ DepsFrame

NextDeps ==
    \/ CdStart
    \/ CdScan
    \/ CdOffer
    \/ CdReply
    \/ CdInstallStart
    \/ CdInstallEnd
    \/ CdProbeRustc
    \/ CdProbeCargo
    \/ CdBrewInfo
    \/ CdRustInstallEnd
    \/ CdRecheck
    \/ CdComplete
    \/ CdTaskDone

SpecDeps == InitDeps /\ [][NextDeps]_vars

-----------------------------------------------------------------------------
(* check_dependencies_task: properties *)

PackageInstalls == SelectSeq(installs, LAMBDA x : x.site = "package")

Pkgs(q) == [i \in 1..Len(q) |-> q[i].pkg]

SentDep(k, tag, pkg) == \E i \in 1..Len(msg_q) : msg_q[i] = DepMsg(k, tag, pkg)

\* positions after the package section of check_dependencies_task
AfterPackages == {"rust", "probe_cargo", "brew_info", "rust_install_wait", "recheck",
                  "complete", "task_done", "done"}

BothProbesOk == last_probe["rustc"] = "ok" /\ last_probe["cargo"] = "ok"

\* C11 (as claimed): a check that finds every catalogue package installed
\* sends no ConfirmRequest and runs no install command for a catalogue
\* package, and returns true exactly when the rustc and cargo probes both
\* succeeded.
C11_NoMissingNoInstall ==
    (cd_pc \in AfterPackages /\ missing = <<>>) =>
        /\ asked = 0
        /\ \A i \in 1..Len(installs) : installs[i].pkg \notin Catalogue
        /\ cd_ret # "none" => (cd_ret = "Ok(true)" <=> BothProbesOk)

\* C11 (amended): a check that finds every catalogue package installed sends
\* no ConfirmRequest and runs no install command of the missing-package loop
\* (the toolchain check may still run `brew install rust`), and returns true
\* exactly when the last rustc probe and the last cargo probe both succeeded.
C11_NoMissingNoPackageInstall ==
    (cd_pc \in AfterPackages /\ missing = <<>>) =>
        /\ asked = 0
        /\ PackageInstalls = <<>>
        /\ cd_ret # "none" => (cd_ret = "Ok(true)" <=> BothProbesOk)

C11_Witness ==
    /\ cd_pc = "done"
    /\ missing = <<>>
    /\ installs = <<Install("toolchain", "rust", "ok")>>
    /\ rustc_ok = FALSE
    /\ cd_ret = "Ok(true)"

\* C12: after an accepting reply every missing package gets its install
\* command, in catalogue order and one at a time; a failed install is logged
\* and shown as a dialog, and neither the later installs nor the toolchain
\* check are skipped because of it.
C12_AcceptInstallsAll ==
    /\ \A i \in 1..(Len(installs) - 1) : installs[i].res # "running"
    /\ IsPrefix(Pkgs(PackageInstalls), missing)
    /\ \A i, j \in 1..Len(missing) :
          i < j => \E a, b \in 1..Len(BREW_PACKAGES) :
                      a < b /\ BREW_PACKAGES[a] = missing[i] /\ BREW_PACKAGES[b] = missing[j]
    /\ \A i \in 1..Len(PackageInstalls) :
          PackageInstalls[i].res = "failed" =>
              /\ SentDep("Log", "install_failed", PackageInstalls[i].pkg)
              /\ SentDep("ShowDialog", "install_failed", PackageInstalls[i].pkg)
    /\ (cd_reply = "yes" /\ cd_pc \in AfterPackages) =>
          /\ Pkgs(PackageInstalls) = missing
          /\ \A i \in 1..Len(PackageInstalls) : PackageInstalls[i].res # "running"
    /\ (cd_reply = "yes" /\ cd_ret # "none") =>
          last_probe["rustc"] # "none" /\ last_probe["cargo"] # "none"

C12_Witness ==
    /\ cd_pc = "done"
    /\ cd_reply = "yes"
    /\ Len(missing) = 2
    /\ Len(PackageInstalls) = 2
    /\ PackageInstalls[1].res = "failed"
    /\ PackageInstalls[2].res = "ok"

\* C13 (as claimed): after a declining reply, or a dropped reply slot, the
\* warning is logged and no install command at all is executed in the rest
\* of the run, which reaches the toolchain check and completes.
C13_DeclineNoInstall ==
    cd_reply \in {"no", "dropped"} =>
        /\ SentDep("Log", "not_installed_warning", "")
        /\ installs = <<>>
        /\ cd_pc # "done" => ENABLED NextDeps
        /\ cd_ret # "none" => last_probe["rustc"] # "none" /\ last_probe["cargo"] # "none"

\* C13 (amended): after a declining reply, or a dropped reply slot, the
\* warning is logged and no missing package is installed; the only install
\* command the rest of the run may execute is the `brew install rust` of the
\* toolchain check, once, when the rustc or the cargo probe failed; the run
\* reaches the toolchain check and completes.
C13_DeclineNoPackageInstall ==
    cd_reply \in {"no", "dropped"} =>
        /\ SentDep("Log", "not_installed_warning", "")
        /\ PackageInstalls = <<>>
        /\ Len(installs) <= 1
        /\ installs # <<>> =>
              /\ installs[1].site = "toolchain"
              /\ installs[1].pkg = "rust"
              /\ ~(rustc_ok /\ cargo_ok)
        /\ cd_pc # "done" => ENABLED NextDeps
        /\ cd_ret # "none" => last_probe["rustc"] # "none" /\ last_probe["cargo"] # "none"

C13_Witness ==
    /\ cd_pc = "done"
    /\ cd_reply = "no"
    /\ Len(missing) = 1
    /\ installs = <<Install("toolchain", "rust", "ok")>>

\* C14 (as claimed): true is returned, and the "all dependencies are
\* installed and ready" dialog is sent, only when every catalogue package is
\* installed at the end of the run and rustc and cargo are both present.
C14_TrueOnlyWhenAllReady ==
    /\ cd_ret = "Ok(true)" => (Catalogue \subseteq brew_has /\ Tools \subseteq path_has)
    /\ SentDep("ShowDialog", "all_ready", "") =>
           (Catalogue \subseteq brew_has /\ Tools \subseteq path_has)

ToolchainInstalls == SelectSeq(installs, LAMBDA x : x.site = "toolchain")

CheckReturned == cd_pc \in {"task_done", "done"}

\* what a returned check has probed and installed, by case
ResolvedAsDocumented ==
    /\ Len(probed) <= 4
    /\ Len(ToolchainInstalls) <= 1
    /\ (CheckReturned /\ ~(probed[1].found /\ probed[2].found)) =>
          IF SentDep("Log", "no_rust_formula", "")
          THEN /\ ToolchainInstalls = <<>>
               /\ Len(probed) = 2
               /\ cd_ret = "Ok(false)"
          ELSE /\ Len(ToolchainInstalls) = 1
               /\ IF ToolchainInstalls[1].res = "ok"
                  THEN /\ Len(probed) = 4
                       /\ probed[3].tool = "rustc"
                       /\ probed[4].tool = "cargo"
                       /\ cd_ret = "Ok(true)" <=> (probed[3].found /\ probed[4].found)
                  ELSE /\ Len(probed) = 2
                       /\ cd_ret = "Ok(false)"

\* C32: toolchain resolution.  With a first probe failed and the formula
\* unknown to Homebrew the check ends not ready with no install; with the
\* formula known the install runs once, rustc and cargo are probed once
\* more only if it succeeded, and the check is ready exactly when both of
\* these probes succeed.  Once the check has returned nothing is probed or
\* installed.
C32_BoundedToolchainResolution ==
    /\ []ResolvedAsDocumented
    /\ [][CheckReturned => (probed' = probed /\ installs' = installs)]_vars

C32_Witness ==
    /\ cd_pc = "done"
    /\ probed = <<Probed("rustc", TRUE), Probed("cargo", FALSE),
                  Probed("rustc", TRUE), Probed("cargo", TRUE)>>
    /\ Len(ToolchainInstalls) = 1
    /\ ToolchainInstalls[1].res = "ok"
    /\ cd_ret = "Ok(true)"

\* C33: within one run of the task no install command is executed more than
\* once, the install of the package that provides the Rust toolchain
\* included.
C33_NoInstallTwice ==
    \A i, j \in 1..Len(installs) : installs[i].pkg = installs[j].pkg => i = j

-----------------------------------------------------------------------------
(***************************************************************************)
(* app.rs spawn_compile: the compile task, and compiler.rs: the pipelines  *)
(* compile_bitcoin and compile_electrs it runs.  The messages accumulate   *)
(* in msg_q; Progress fractions are percentages.                           *)
(***************************************************************************)
DigitChars == Range(Digit)

DigitVal(c) == (CHOOSE i \in 1..10 : Digit[i] = c) - 1

\* The characters of the model.  One outside ASCII is written by its code
\* point: U+00E9 is a Latin letter, U+0663 an Arabic-Indic decimal digit.
\* char::is_alphabetic and char::is_numeric follow Unicode, and so does the
\* `\d` of VERSION_RE (compiler.rs:26).
Alphabetic == {"v", "r", "c", "Z", "U+00E9"}
Numeric    == DigitChars \cup {"U+0663"}

\* the longest prefix matched by `\d+`
RECURSIVE LeadingDigits(_)
LeadingDigits(t) ==
    IF t # <<>> /\ Head(t) \in Numeric
    THEN <<Head(t)>> \o LeadingDigits(Tail(t))
    ELSE <<>>

\* str::parse::<u32> accepts ASCII digits only; the tags of the model are
\* too short to overflow a u32
ParsesAsU32(ds) == ds # <<>> /\ \A i \in 1..Len(ds) : ds[i] \in DigitChars

\* str::parse::<u32> of a string of digits
RECURSIVE ParseNat(_)
ParseNat(ds) ==
    IF ds = <<>> THEN 0
    ELSE 10 * ParseNat(SubSeq(ds, 1, Len(ds) - 1)) + DigitVal(ds[Len(ds)])

\* compiler.rs:342, str::trim_start_matches('v')
RECURSIVE trim_start_matches_v(_)
trim_start_matches_v(tag) ==
    IF tag # <<>> /\ Head(tag) = "v" THEN trim_start_matches_v(Tail(tag)) ELSE tag

\* compiler.rs:341-351 with VERSION_RE (25-27)
parse_version(tag) ==
    LET t     == trim_start_matches_v(tag)
        major == LeadingDigits(t)
        rest  == SubSeq(t, Len(major) + 1, Len(t))
        minor == IF rest # <<>> /\ Head(rest) = "." THEN LeadingDigits(Tail(rest)) ELSE <<>>
    IN  IF ParsesAsU32(major) /\ ParsesAsU32(minor)
        THEN <<ParseNat(major), ParseNat(minor)>>
        ELSE <<0, 0>>

\* compiler.rs:354-357
use_cmake_above(version) == parse_version(version)[1] > 25

use_cmake(version) == parse_version(version)[1] >= 25

\* char::is_alphanumeric
is_alphanumeric(c) == c \in Alphabetic \/ c \in Numeric

\* compiler.rs:432-440
validate_version_tag_lenient(tag) == TRUE

validate_version_tag(tag) ==
    \A i \in 1..Len(tag) : is_alphanumeric(tag[i]) \/ tag[i] \in {".", "-", "_"}

BitcoinTags == {<<"v", "2", "7", ".", "0">>, <<"v", "2", "4", ".", "1">>, <<"v", "2", "5", "+">>}
ElectrsTags == {<<"v", "0", ".", "1", "0">>, <<"v", "0", "/", "9">>}

\* the exit codes a command of a pipeline ends with
ExitCodes == {0, 17}

\* A Result of a pipeline.  An anyhow::Error is its outermost message `msg`,
\* which is all that `{e}` and e.to_string() print, and the chain of causes
\* below it.
Succeeded(v) == [st |-> "ok", msg |-> v, cause |-> <<>>]
Failed(m)    == [st |-> "err", msg |-> m, cause |-> <<>>]

\* process.rs:82-90: the Err of run_command for a child that exited with
\* `code`, "Command failed (exit {code}): {cmd}"
CommandFailed(c, code) == [text |-> "Command failed", code |-> code, cmd |-> c]

\* anyhow's .context(m) on the Err of a run_command call
context(inner, m) == [st |-> "err", msg |-> m, cause |-> <<inner>>]

CmpMsg(k, v) == Msg(k, "compile", v)

\* a command handed to run_command by stage `stage` of the pipeline of `t`
Cmd(t, stage, c, code) == [t |-> t, stage |-> stage, cmd |-> c, code |-> code]

\* a std::fs::create_dir_all call of the pipeline of `t` and whether it succeeded
MkDir(t, dir, ok) == [t |-> t, dir |-> dir, ok |-> ok]

\* compiler.rs:105-118, the pipeline goes on only with cargo found
CargoFoundAlways(v) == TRUE

CargoFound(v) == v

\* the binaries a build can have produced
Binaries == {"bitcoind", "bitcoin-cli"}

ErrPc(t) == IF t = "Bitcoin" THEN "bitcoin_err" ELSE "electrs_err"
OkPc(t)  == IF t = "Bitcoin" THEN "bitcoin_ok" ELSE "electrs_ok"

\* app.rs:390, the second pipeline starts only without an earlier error
SecondStartsAlways(err, tgt) == tgt \in {"Electrs", "Both"}

SecondStarts(err, tgt) == ~err /\ tgt \in {"Electrs", "Both"}

\* app.rs:409, the closing Progress and dialog are for a run without error
CompletedAlways(err) == TRUE

Completed(err) == ~err

\* a `?` on an Err: the pipeline returns it to the task
PipelineFailsUnnoticed(e) ==
    /\ UNCHANGED <<cur, pl_ret>>
    /\ ck_pc' = IF cur = "Bitcoin" THEN "bitcoin_collect" ELSE "electrs_collect"

PipelineFails(e) ==
    /\ pl_ret' = [pl_ret EXCEPT ![cur] = e]
    /\ ck_pc' = ErrPc(cur)
    /\ cur' = "none"

InitCompile ==
    /\ msg_q = <<>>
    /\ target \in {"Bitcoin", "Electrs", "Both"}
    /\ bitcoin_ver \in BitcoinTags
    /\ electrs_ver \in ElectrsTags
    /\ src_exists \in [Targets -> BOOLEAN]
    /\ src_usable \in [Targets -> BOOLEAN]
    /\ \A t \in Targets : src_usable[t] => src_exists[t]
    /\ ck_pc = "start"
    /\ cur = "none"
    /\ error_occurred = FALSE
    /\ output_dirs = <<>>
    /\ ran = <<>>
    /\ copied = [t \in Targets |-> {}]
    /\ pl_ret = [t \in Targets |-> NoReturn]
    /\ probes = <<>>
    /\ dirs = <<>>
    /\ RunIdle
    /\ ProbeIdle
    /\ BusIdle
    /\ DepsIdle
    /\ VerIdle
    /\ AuxIdle

CmpFrame == UNCHANGED <<runVars, probeVars, busVars, depsVars, verVars, auxVars, target,
                        bitcoin_ver, electrs_ver>>

\* app.rs:367-369
CkStart ==
    /\ ck_pc = "start"
    /\ SendAll(<<CmpMsg("Progress", 5)>>)
    /\ ck_pc' = IF target \in {"Bitcoin", "Both"} THEN "bitcoin" ELSE "electrs_gate"
    /\ UNCHANGED <<src_exists, src_usable, cur, error_occurred, output_dirs, ran, copied, pl_ret, probes, dirs>>
    /\ CmpFrame

\* app.rs:371-373 and compiler.rs:39-44, compile_bitcoin is called
CkBitcoin ==
    /\ ck_pc = "bitcoin"
    /\ SendAll(<<CmpMsg("Progress", 10), CmpMsg("Log", "COMPILING BITCOIN CORE")>>)
    /\ \E created \in BOOLEAN :
          /\ IF created
             THEN /\ cur' = "Bitcoin"
                  /\ ck_pc' = "resolve"
                  /\ UNCHANGED pl_ret
             ELSE /\ pl_ret' = [pl_ret EXCEPT !["Bitcoin"] =
                                   Failed("Failed to create build directory")]
                  /\ ck_pc' = "bitcoin_err"
                  /\ UNCHANGED cur
          /\ dirs' = Append(dirs, MkDir("Bitcoin", "build", created))
    /\ UNCHANGED <<src_exists, src_usable, error_occurred, output_dirs, ran, copied, probes>>
    /\ CmpFrame

\* compiler.rs:373-379 / 396-403, clone_or_update begins: the tag is
\* validated before any command
CuBegin ==
    /\ ck_pc = "resolve"
    /\ LET version == IF cur = "Bitcoin" THEN bitcoin_ver ELSE electrs_ver
       IN  /\ SendAll(IF src_exists[cur]
                      THEN <<CmpMsg("Log", "Source directory exists"), CmpMsg("Log", "Updating")>>
                      ELSE <<CmpMsg("Log", "Cloning repository")>>)
           /\ IF validate_version_tag(version)
              THEN /\ ck_pc' = IF src_exists[cur] THEN "fetch" ELSE "clone"
                   /\ UNCHANGED <<cur, pl_ret>>
              ELSE PipelineFails(Failed("Version tag contains unexpected characters"))
    /\ UNCHANGED <<src_exists, src_usable, error_occurred, output_dirs, ran, copied, probes, dirs>>
    /\ CmpFrame

\* What a `git clone` that did not succeed leaves at the place of the source
\* directory: nothing when git removed what it had written, the directory
\* with an incomplete repository when git was killed before it could
\* (process.rs kill_on_drop, or a kill from outside).
CloneLeaves == {FALSE, TRUE}

\* compiler.rs:381-395, git clone
CuClone ==
    /\ ck_pc = "clone"
    /\ \E code \in ExitCodes :
          /\ ran' = Append(ran, Cmd(cur, "resolve", "git clone", code))
          /\ IF code = 0
             THEN /\ SendAll(<<CmpMsg("Log", "Source cloned")>>)
                  /\ src_exists' = [src_exists EXCEPT ![cur] = TRUE]
                  /\ src_usable' = [src_usable EXCEPT ![cur] = TRUE]
                  /\ ck_pc' = IF cur = "Bitcoin" THEN "bitcoin_build" ELSE "cargo_build"
                  /\ UNCHANGED <<cur, pl_ret>>
             ELSE /\ PipelineFails(context(CommandFailed("git clone", code), "git clone failed"))
                  /\ \E left \in CloneLeaves :
                        src_exists' = [src_exists EXCEPT ![cur] = left]
                  /\ UNCHANGED <<msg_q, src_usable>>
    /\ UNCHANGED <<error_occurred, output_dirs, copied, probes, dirs>>
    /\ CmpFrame

\* compiler.rs:405-412, git fetch
CuFetch ==
    /\ ck_pc = "fetch"
    /\ \E code \in ExitCodes :
          \* git fetch fails in a directory that holds no complete repository
          /\ code = 0 => src_usable[cur]
          /\ ran' = Append(ran, Cmd(cur, "resolve", "git fetch", code))
          /\ IF code = 0
             THEN /\ ck_pc' = "checkout"
                  /\ UNCHANGED <<cur, pl_ret>>
             ELSE PipelineFails(context(CommandFailed("git fetch", code), "git fetch failed"))
    /\ UNCHANGED <<msg_q, src_exists, src_usable, error_occurred, output_dirs, copied, probes, dirs>>
    /\ CmpFrame

\* compiler.rs:414-423, git checkout
CuCheckout ==
    /\ ck_pc = "checkout"
    /\ \E code \in ExitCodes :
          /\ ran' = Append(ran, Cmd(cur, "resolve", "git checkout", code))
          /\ IF code = 0
             THEN /\ SendAll(<<CmpMsg("Log", "Updated")>>)
                  /\ ck_pc' = IF cur = "Bitcoin" THEN "bitcoin_build" ELSE "cargo_build"
                  /\ UNCHANGED <<cur, pl_ret>>
             ELSE /\ PipelineFails(context(CommandFailed("git checkout", code), "git checkout failed"))
                  /\ UNCHANGED msg_q
    /\ UNCHANGED <<src_exists, src_usable, error_occurred, output_dirs, copied, probes, dirs>>
    /\ CmpFrame

\* compiler.rs:48-64 with 192-202 (cmake) or 234-239 (autogen.sh): the
\* build system is chosen and its first command runs
CbConfigure ==
    /\ ck_pc = "bitcoin_build"
    /\ \E code \in ExitCodes :
         LET cmake == use_cmake(bitcoin_ver)
         IN  /\ ran' = Append(ran, Cmd(cur, "configure",
                                       IF cmake THEN "cmake -B build" ELSE "./autogen.sh", code))
             /\ SendAll(<<CmpMsg("Log", "Environment setup"), CmpMsg("Progress", 30),
                          CmpMsg("Log", IF cmake THEN "Building with CMake"
                                        ELSE "Building with Autotools")>>
                        \o (IF cmake /\ code = 0
                            THEN <<CmpMsg("Progress", 50), CmpMsg("Log", "Compiling")>>
                            ELSE <<>>))
             /\ IF code = 0
                THEN /\ ck_pc' = IF cmake THEN "cmake_build" ELSE "autotools_configure"
                     /\ UNCHANGED <<cur, pl_ret>>
                ELSE PipelineFails(IF cmake
                                   THEN context(CommandFailed("cmake -B build", code),
                                                "cmake configure failed")
                                   ELSE context(CommandFailed("./autogen.sh", code),
                                                "autogen.sh failed"))
    /\ UNCHANGED <<src_exists, src_usable, error_occurred, output_dirs, copied, probes, dirs>>
    /\ CmpFrame

\* compiler.rs:241-252, ./configure
AtConfigure ==
    /\ ck_pc = "autotools_configure"
    /\ \E code \in ExitCodes :
          /\ ran' = Append(ran, Cmd(cur, "configure", "./configure", code))
          /\ SendAll(<<CmpMsg("Log", "Configuring")>>
                     \o (IF code = 0
                         THEN <<CmpMsg("Progress", 50), CmpMsg("Log", "Compiling")>>
                         ELSE <<>>))
          /\ IF code = 0
             THEN /\ ck_pc' = "make"
                  /\ UNCHANGED <<cur, pl_ret>>
             ELSE PipelineFails(context(CommandFailed("./configure", code), "./configure failed"))
    /\ UNCHANGED <<src_exists, src_usable, error_occurred, output_dirs, copied, probes, dirs>>
    /\ CmpFrame

\* compiler.rs:207-223 (cmake --build) / 254-264 (make)
CbBuild ==
    /\ ck_pc \in {"cmake_build", "make"}
    /\ \E code \in ExitCodes :
          /\ ran' = Append(ran, Cmd(cur, "build",
                                    IF ck_pc = "make" THEN "make" ELSE "cmake --build", code))
          /\ IF code = 0
             THEN /\ ck_pc' = "bitcoin_collect"
                  /\ UNCHANGED <<cur, pl_ret>>
             ELSE PipelineFails(IF ck_pc = "make"
                                THEN context(CommandFailed("make", code), "make failed")
                                ELSE context(CommandFailed("cmake --build", code),
                                             "cmake build failed"))
    /\ UNCHANGED <<msg_q, src_exists, src_usable, error_occurred, output_dirs, copied, probes, dirs>>
    /\ CmpFrame

\* compiler.rs:66-91 with copy_binaries (269-334): binaries that do not
\* exist or cannot be copied are skipped, and the pipeline still succeeds
CbCollect ==
    /\ ck_pc = "bitcoin_collect"
    /\ \E created \in BOOLEAN, done \in SUBSET Binaries :
          /\ dirs' = Append(dirs, MkDir(cur, "output", created))
          /\ IF created
             THEN /\ copied' = [copied EXCEPT ![cur] = done]
                  /\ SendAll(<<CmpMsg("Progress", 90), CmpMsg("Log", "Copying binaries")>>
                             \o (IF done = {}
                                 THEN <<CmpMsg("Log", "No binaries were copied")>>
                                 ELSE <<CmpMsg("Log", "Copied")>>)
                             \o <<CmpMsg("Log", "BITCOIN CORE COMPILED SUCCESSFULLY")>>)
                  /\ pl_ret' = [pl_ret EXCEPT ![cur] = Succeeded("binaries/bitcoin")]
                  /\ ck_pc' = OkPc(cur)
                  /\ cur' = "none"
             ELSE /\ done = {}
                  /\ SendAll(<<CmpMsg("Progress", 90)>>)
                  /\ PipelineFails(Failed("Failed to create output directory"))
                  /\ UNCHANGED copied
    /\ UNCHANGED <<src_exists, src_usable, error_occurred, output_dirs, ran, probes>>
    /\ CmpFrame

\* app.rs:374-377
CkBitcoinOk ==
    /\ ck_pc = "bitcoin_ok"
    /\ output_dirs' = Append(output_dirs, pl_ret["Bitcoin"].msg)
    /\ SendAll(<<CmpMsg("Progress", IF target = "Both" THEN 50 ELSE 95)>>)
    /\ ck_pc' = "electrs_gate"
    /\ UNCHANGED <<src_exists, src_usable, cur, error_occurred, ran, copied, pl_ret, probes, dirs>>
    /\ CmpFrame

\* app.rs:378-386
CkBitcoinErr ==
    /\ ck_pc = "bitcoin_err"
    /\ SendAll(<<CmpMsg("Log", "Compilation failed"),
                 CmpMsg("ShowDialog", pl_ret["Bitcoin"].msg)>>)
    /\ error_occurred' = TRUE
    /\ ck_pc' = "electrs_gate"
    /\ UNCHANGED <<src_exists, src_usable, cur, output_dirs, ran, copied, pl_ret, probes, dirs>>
    /\ CmpFrame

\* app.rs:390-392: compile_electrs is called when nothing failed before
CkElectrs ==
    /\ ck_pc = "electrs_gate"
    /\ IF SecondStarts(error_occurred, target)
       THEN /\ SendAll(<<CmpMsg("Progress", IF target = "Both" THEN 55 ELSE 10)>>)
            /\ cur' = "Electrs"
            /\ ck_pc' = "electrs_probe"
       ELSE /\ ck_pc' = "final"
            /\ UNCHANGED <<msg_q, cur>>
    /\ UNCHANGED <<src_exists, src_usable, error_occurred, output_dirs, ran, copied, pl_ret, probes,
                   dirs>>
    /\ CmpFrame

\* compiler.rs:102-129: cargo is probed, then rustc; without cargo the
\* pipeline returns at once, without rustc it goes on; then the build
\* directory is created
CeProbe ==
    /\ ck_pc = "electrs_probe"
    /\ \E cargo \in BOOLEAN, rustc \in BOOLEAN, created \in BOOLEAN :
          IF CargoFound(cargo)
          THEN /\ probes' = probes \o <<Probed("cargo", cargo), Probed("rustc", rustc)>>
               /\ dirs' = Append(dirs, MkDir("Electrs", "build", created))
               /\ SendAll(<<CmpMsg("Log", "COMPILING ELECTRS"),
                            CmpMsg("Log", "Verifying Rust installation"),
                            CmpMsg("Log", "Cargo found"),
                            CmpMsg("Log", IF rustc THEN "Rustc found"
                                          ELSE "rustc check failed")>>)
               /\ IF created
                  THEN /\ ck_pc' = "resolve"
                       /\ UNCHANGED <<cur, pl_ret>>
                  ELSE PipelineFails(Failed("Failed to create build directory"))
          ELSE /\ rustc /\ created
               /\ probes' = Append(probes, Probed("cargo", cargo))
               /\ SendAll(<<CmpMsg("Log", "COMPILING ELECTRS"),
                            CmpMsg("Log", "Verifying Rust installation"),
                            CmpMsg("Log", "Cargo not found in PATH"),
                            CmpMsg("ShowDialog", "Rust Not Found")>>)
               /\ PipelineFails(Failed("Cargo not found"))
               /\ UNCHANGED dirs
    /\ UNCHANGED <<src_exists, src_usable, error_occurred, output_dirs, ran, copied>>
    /\ CmpFrame

\* compiler.rs:133-154, cargo build
CeBuild ==
    /\ ck_pc = "cargo_build"
    /\ \E code \in ExitCodes :
          /\ ran' = Append(ran, Cmd(cur, "build", "cargo build", code))
          /\ SendAll(<<CmpMsg("Log", "Building with Cargo"), CmpMsg("Progress", 30)>>)
          /\ IF code = 0
             THEN /\ ck_pc' = "electrs_collect"
                  /\ UNCHANGED <<cur, pl_ret>>
             ELSE PipelineFails(context(CommandFailed("cargo build", code), "cargo build --release failed"))
    /\ UNCHANGED <<src_exists, src_usable, error_occurred, output_dirs, copied, probes, dirs>>
    /\ CmpFrame

\* compiler.rs:156-181 with copy_binaries (269-334): the single binary must
\* exist; a failed copy is only logged
CeCollect ==
    /\ ck_pc = "electrs_collect"
    /\ \E exists \in BOOLEAN, created \in BOOLEAN, done \in SUBSET {"electrs"} :
          /\ ~exists => (created /\ done = {})
          /\ ~created => done = {}
          /\ dirs' = IF exists THEN Append(dirs, MkDir(cur, "output", created)) ELSE dirs
          /\ IF exists /\ created
             THEN /\ copied' = [copied EXCEPT ![cur] = done]
                  /\ SendAll(<<CmpMsg("Progress", 85), CmpMsg("Log", "Collecting binaries"),
                               CmpMsg("Log", "Copying binaries")>>
                             \o (IF done = {} THEN <<CmpMsg("Log", "No binaries were copied")>>
                                 ELSE <<CmpMsg("Log", "Copied")>>)
                             \o <<CmpMsg("Log", "ELECTRS COMPILED SUCCESSFULLY")>>)
                  /\ pl_ret' = [pl_ret EXCEPT ![cur] = Succeeded("binaries/electrs")]
                  /\ ck_pc' = OkPc(cur)
                  /\ cur' = "none"
             ELSE /\ SendAll(<<CmpMsg("Progress", 85), CmpMsg("Log", "Collecting binaries")>>)
                  /\ PipelineFails(IF exists THEN Failed("Failed to create output directory")
                                   ELSE Failed("Electrs binary not found at expected location"))
                  /\ UNCHANGED copied
    /\ UNCHANGED <<src_exists, src_usable, error_occurred, output_dirs, ran, probes>>
    /\ CmpFrame

\* app.rs:393-396
CkElectrsOk ==
    /\ ck_pc = "electrs_ok"
    /\ output_dirs' = Append(output_dirs, pl_ret["Electrs"].msg)
    /\ SendAll(<<CmpMsg("Progress", 100)>>)
    /\ ck_pc' = "final"
    /\ UNCHANGED <<src_exists, src_usable, cur, error_occurred, ran, copied, pl_ret, probes, dirs>>
    /\ CmpFrame

\* app.rs:397-405
CkElectrsErr ==
    /\ ck_pc = "electrs_err"
    /\ SendAll(<<CmpMsg("Log", "Compilation failed"),
                 CmpMsg("ShowDialog", pl_ret["Electrs"].msg)>>)
    /\ error_occurred' = TRUE
    /\ ck_pc' = "final"
    /\ UNCHANGED <<src_exists, src_usable, cur, output_dirs, ran, copied, pl_ret, probes, dirs>>
    /\ CmpFrame

\* app.rs:409-422
CkFinal ==
    /\ ck_pc = "final"
    /\ SendAll((IF Completed(error_occurred)
                THEN <<CmpMsg("Progress", 100), CmpMsg("ShowDialog", "Compilation Complete")>>
                ELSE <<>>)
               \o <<CmpMsg("TaskDone", "")>>)
    /\ ck_pc' = "done"
    /\ UNCHANGED <<src_exists, src_usable, cur, error_occurred, output_dirs, ran, copied, pl_ret, probes, dirs>>
    /\ CmpFrame

NextCompile ==
    \/ CkStart
    \/ CkBitcoin
    \/ CuBegin
    \/ CuClone
    \/ CuFetch
    \/ CuCheckout
    \/ CbConfigure
    \/ AtConfigure
    \/ CbBuild
    \/ CbCollect
    \/ CkBitcoinOk
    \/ CkBitcoinErr
    \/ CkElectrs
    \/ CeProbe
    \/ CeBuild
    \/ CeCollect
    \/ CkElectrsOk
    \/ CkElectrsErr
    \/ CkFinal

SpecCompile == InitCompile /\ [][NextCompile]_vars

-----------------------------------------------------------------------------
(* the compile task: properties *)

RanOf(t) == SelectSeq(ran, LAMBDA c : c.t = t)

StageNo(stage) ==
    CASE stage = "resolve"   -> 1
      [] stage = "configure" -> 2
      [] stage = "build"     -> 3
      [] stage = "collect"   -> 4

Requested(t) == IF t = "Bitcoin" THEN target \in {"Bitcoin", "Both"}
                ELSE target \in {"Electrs", "Both"}

\* the Progress values sent so far, in send order
ProgressSent ==
    LET ps == SelectSeq(msg_q, LAMBDA m : m.kind = "Progress")
    IN  [i \in 1..Len(ps) |-> ps[i].val]

SentLog(tag) == \E i \in 1..Len(msg_q) : msg_q[i].kind = "Log" /\ msg_q[i].val = tag

\* C16: the commands of one pipeline run stage by stage in the order resolve,
\* configure, build, none of them twice; a failed command is the last command
\* of its pipeline, which then returns a failure and copies no binary; a
\* pipeline collects and succeeds only after a successful build.
C16_StagesInOrderAbortOnFailure ==
    \A t \in Targets :
       LET r == RanOf(t)
       IN  /\ \A i, j \in 1..Len(r) :
                 i < j => /\ StageNo(r[i].stage) <= StageNo(r[j].stage)
                          /\ r[i].cmd # r[j].cmd
           /\ \A i \in 1..Len(r) :
                 r[i].code # 0 =>
                     /\ i = Len(r)
                     /\ copied[t] = {}
                     /\ cur # t
                     /\ pl_ret[t].st = "err"
           /\ (pl_ret[t].st = "ok" \/ copied[t] # {}) =>
                 /\ r # <<>>
                 /\ r[1].stage = "resolve"
                 /\ r[Len(r)].stage = "build"
                 /\ \A i \in 1..Len(r) : r[i].code = 0
           /\ ck_pc \in {"bitcoin_collect", "electrs_collect"} /\ cur = t =>
                 r # <<>> /\ r[Len(r)].stage = "build" /\ r[Len(r)].code = 0

C16_Witness ==
    /\ ck_pc = "done"
    /\ target = "Bitcoin"
    /\ Len(ran) = 3
    /\ ran[1].cmd = "git fetch"
    /\ ran[3] = Cmd("Bitcoin", "configure", "./autogen.sh", 17)
    /\ pl_ret["Bitcoin"].st = "err"
    /\ copied["Bitcoin"] = {}

\* C17: with both targets requested the Electrs pipeline starts only after
\* the Bitcoin pipeline has returned, and only when that returned success:
\* after a failed Bitcoin pipeline no probe, command or message of the
\* Electrs pipeline occurs.
C17_SecondOnlyAfterFirstSucceeded ==
    target = "Both" =>
        /\ \A i, j \in 1..Len(ran) :
              (ran[i].t = "Electrs" /\ ran[j].t = "Bitcoin") => j < i
        /\ ( \/ cur = "Electrs"
             \/ RanOf("Electrs") # <<>>
             \/ pl_ret["Electrs"] # NoReturn
             \/ SentLog("COMPILING ELECTRS")
             \/ copied["Electrs"] # {} )
           => (cur # "Bitcoin" /\ pl_ret["Bitcoin"].st = "ok")
        /\ pl_ret["Bitcoin"].st = "err" =>
              /\ \A i \in 1..Len(ProgressSent) : ProgressSent[i] # 55
              /\ ~SentLog("Verifying Rust installation")

C17_Witness ==
    /\ ck_pc = "done"
    /\ target = "Both"
    /\ pl_ret["Bitcoin"].st = "err"
    /\ pl_ret["Electrs"] = NoReturn
    /\ RanOf("Bitcoin") # <<>>

\* C18: Progress 1.0 is sent by a compile task exactly when every requested
\* pipeline succeeded; then it is the last Progress before TaskDone, and a
\* failed task sends TaskDone without it.
C18_FullProgressIffSuccess ==
    LET full == \E i \in 1..Len(ProgressSent) : ProgressSent[i] = 100
        all_ok == \A t \in Targets : Requested(t) => pl_ret[t].st = "ok"
    IN  /\ full => all_ok
        /\ ck_pc = "done" =>
              /\ msg_q[Len(msg_q)].kind = "TaskDone"
              /\ all_ok <=> full
              /\ all_ok <=> ~error_occurred
              /\ all_ok => ProgressSent[Len(ProgressSent)] = 100

C18_Witness ==
    /\ ck_pc = "done"
    /\ target = "Both"
    /\ pl_ret["Bitcoin"].st = "ok"
    /\ pl_ret["Electrs"].st = "ok"
    /\ ProgressSent[Len(ProgressSent)] = 100

\* C19 (as claimed): the Progress fractions of one compile task are sent in
\* non-decreasing order, whichever target was chosen.
C19_ProgressMonotonic ==
    \A i, j \in 1..Len(ProgressSent) : i < j => ProgressSent[i] <= ProgressSent[j]

VerOf(t) == IF t = "Bitcoin" THEN bitcoin_ver ELSE electrs_ver

\* the tag holds one of the characters of the model's tags that is neither
\* alphanumeric nor `.`, `-` or `_`
Malformed(tag) == \E i \in 1..Len(tag) : tag[i] \in {"+", "/"}

ValidationFailure == Failed("Version tag contains unexpected characters")

\* C21 (as claimed): a pipeline that returns the validation failure for its
\* malformed tag has started no external process at all before, neither a
\* probe nor a shell command.
C21_NoProcessBeforeRejection ==
    \A t \in Targets :
       (Malformed(VerOf(t)) /\ pl_ret[t] = ValidationFailure) =>
           (RanOf(t) = <<>> /\ (t = "Electrs" => probes = <<>>))

\* C21 (amended): a pipeline whose tag is malformed never runs a shell command
\* (clone, fetch, checkout, configure, build) and never succeeds; once past its
\* earlier steps it returns the validation failure.  The Electrs pipeline has
\* by then run its two toolchain probes, which do not take the tag.
C21_NoCommandBeforeRejection ==
    \A t \in Targets :
       Malformed(VerOf(t)) =>
          /\ RanOf(t) = <<>>
          /\ copied[t] = {}
          /\ pl_ret[t].st # "ok"
          /\ ~(cur = t /\ ck_pc \notin {"resolve", "electrs_probe"})
          /\ pl_ret[t].st = "err" =>
                pl_ret[t] \in {ValidationFailure, Failed("Cargo not found"),
                               Failed("Failed to create build directory")}
          /\ (t = "Electrs" /\ pl_ret[t] = ValidationFailure) =>
                /\ Len(probes) = 2
                /\ probes[1] = Probed("cargo", TRUE)
                /\ probes[2].tool = "rustc"

C21_Witness ==
    /\ ck_pc = "done"
    /\ target = "Both"
    /\ ~Malformed(bitcoin_ver)
    /\ Malformed(electrs_ver)
    /\ pl_ret["Bitcoin"].st = "ok"
    /\ pl_ret["Electrs"] = ValidationFailure
    /\ Len(probes) = 2

\* the messages sent after the first Log `tag`
SentAfterLog(tag) ==
    LET at == {i \in 1..Len(msg_q) : msg_q[i].kind = "Log" /\ msg_q[i].val = tag}
    IN  IF at = {} THEN <<>>
        ELSE SubSeq(msg_q, (CHOOSE i \in at : \A j \in at : i <= j) + 1, Len(msg_q))

DirsOf(t) == SelectSeq(dirs, LAMBDA d : d.t = t)

\* C29: when the cargo probe fails compile_electrs returns a failure at once:
\* rustc is not probed, the Rust Not Found dialog is sent, and no directory is
\* created, no source resolved, no command run and no Progress sent by it.
\* When only the rustc probe fails it logs the warning and goes on to create
\* the build directory and resolve the source.
C29_NoCargoFailsFast ==
    /\ (probes # <<>> /\ ~probes[1].found) =>
          /\ probes = <<Probed("cargo", FALSE)>>
          /\ pl_ret["Electrs"] = Failed("Cargo not found")
          /\ cur # "Electrs"
          /\ RanOf("Electrs") = <<>>
          /\ DirsOf("Electrs") = <<>>
          /\ copied["Electrs"] = {}
          /\ \E i \in 1..Len(msg_q) : msg_q[i] = CmpMsg("ShowDialog", "Rust Not Found")
          /\ LET after == SentAfterLog("COMPILING ELECTRS")
             IN  \A i \in 1..Len(after) :
                    /\ after[i].kind # "Progress"
                    /\ after[i].val \notin {"Cloning repository", "Source directory exists"}
    /\ (Len(probes) = 2 /\ ~probes[2].found) =>
          /\ probes[1] = Probed("cargo", TRUE)
          /\ SentLog("rustc check failed")
          /\ DirsOf("Electrs") # <<>>
          /\ pl_ret["Electrs"] # Failed("Cargo not found")
          /\ DirsOf("Electrs")[1].ok =>
                (ck_pc = "resolve" \/ SentLog("Cloning repository")
                                   \/ SentLog("Source directory exists"))

C29_Witness ==
    /\ ck_pc = "done"
    /\ target = "Electrs"
    /\ probes = <<Probed("cargo", FALSE)>>
    /\ pl_ret["Electrs"] = Failed("Cargo not found")
    /\ msg_q[Len(msg_q)].kind = "TaskDone"

\* C30 (as claimed): compile_electrs returns success only when the electrs
\* binary was copied into the versioned output directory.
C30_SuccessMeansCopied ==
    pl_ret["Electrs"].st = "ok" => copied["Electrs"] = {"electrs"}

\* the messages of an error, outermost first; a context message holds no
\* exit code and no command
Chain(e) == <<[text |-> e.msg, code |-> 0, cmd |-> ""]>> \o e.cause

\* the "Compilation Failed" dialogs the task has sent
FailureDialogs ==
    {msg_q[i].val : i \in {j \in 1..Len(msg_q) :
                             /\ msg_q[j].kind = "ShowDialog"
                             /\ msg_q[j].val \notin {"Rust Not Found", "Compilation Complete"}}}

\* C31: when a command of a pipeline exited with a non-zero code and the
\* task has reported the failure, the text of the notification is the text
\* of a message of the error that holds the exit code and the command.
C31_FailureCarriesCodeAndCommand ==
    \A i \in 1..Len(ran) :
        (ran[i].code # 0 /\ error_occurred) =>
            \E text \in FailureDialogs, k \in 1..Len(Chain(pl_ret[ran[i].t])) :
                LET m == Chain(pl_ret[ran[i].t])[k]
                IN  /\ m.text = text
                    /\ m.code = ran[i].code
                    /\ m.cmd = ran[i].cmd

\* C39: every source directory that exists holds a repository that the
\* fetch and checkout of a later run can use: no step of a run leaves a
\* directory that exists and is not usable where there was none before.
C39_ExistingSourceUsable ==
    [][\A t \in Targets :
          (src_exists[t] => src_usable[t]) => (src_exists'[t] => src_usable'[t])]_vars

-----------------------------------------------------------------------------
(***************************************************************************)
(* app.rs: the version lists and spawn_compile's readiness test           *)
(***************************************************************************)
\* github.rs:55-81, the lists fetch_versions can deliver for one project,
\* newest first; the filter on prereleases can leave none
FetchedLists(t) ==
    IF t = "Bitcoin"
    THEN {<<>>, <<<<"v", "2", "7", ".", "0">>>>,
          <<<<"v", "2", "7", ".", "0">>, <<"v", "2", "4", ".", "1">>>>}
    ELSE {<<>>, <<<<"v", "0", ".", "1", "0">>>>}

\* app.rs:141-186 (BitForgeApp::new)
InitVersions ==
    /\ msg_q = <<>>
    /\ VerIdle
    /\ AuxIdle
    /\ target = "Both"
    /\ bitcoin_ver = <<>>
    /\ electrs_ver = <<>>
    /\ src_exists = [t \in Targets |-> FALSE]
    /\ src_usable = [t \in Targets |-> FALSE]
    /\ ck_pc = "off"
    /\ cur = "none"
    /\ error_occurred = FALSE
    /\ output_dirs = <<>>
    /\ ran = <<>>
    /\ copied = [t \in Targets |-> {}]
    /\ pl_ret = [t \in Targets |-> NoReturn]
    /\ probes = <<>>
    /\ dirs = <<>>
    /\ RunIdle
    /\ ProbeIdle
    /\ DepsIdle
    /\ brew = FALSE
    /\ obs_pc = "idle"
    /\ modal = [kind |-> "None", req |-> 0]
    /\ is_busy = FALSE
    /\ progress = 0
    /\ polls = 0
    /\ confirm_q = <<>>
    /\ confirm_rx = TRUE
    /\ slot = [r \in 1..MaxRequests |-> "unused"]
    /\ replies = [r \in 1..MaxRequests |-> 0]
    /\ taken = {}
    /\ deferred = {}
    /\ next_req = 0
    /\ dep_pc = "off"
    /\ dep_req = 0
    /\ dep_answer = "none"
    /\ ref_pc = "off"

VerFrame == UNCHANGED <<runVars, probeVars, depsVars, auxVars, brew, obs_pc, polls, confirm_q,
                        confirm_rx, slot, replies, taken, deferred, next_req, dep_pc,
                        dep_req, dep_answer, ref_pc, src_exists, src_usable, cur, error_occurred,
                        output_dirs, ran, copied, pl_ret, probes, dirs>>

\* app.rs:218-229, drain_messages takes a BitcoinVersionsLoaded or an
\* ElectrsVersionsLoaded message sent by a refresh task (295, 316)
VlLoaded ==
    /\ \E t \in Targets : \E versions \in FetchedLists(t) :
          IF t = "Bitcoin"
          THEN /\ selected_bitcoin' = selected_after(selected_bitcoin, versions)
               /\ bitcoin_versions' = versions
               /\ UNCHANGED <<electrs_versions, selected_electrs>>
          ELSE /\ selected_electrs' = selected_after(selected_electrs, versions)
               /\ electrs_versions' = versions
               /\ UNCHANGED <<bitcoin_versions, selected_bitcoin>>
    /\ UNCHANGED <<msg_q, target, bitcoin_ver, electrs_ver, ck_pc, modal, is_busy,
                   progress>>
    /\ VerFrame

\* app.rs:611-622 and 630-641, a combo box entry is chosen
VlSelect ==
    /\ \/ /\ \E i \in 1..Len(bitcoin_versions) : selected_bitcoin' = bitcoin_versions[i]
          /\ UNCHANGED selected_electrs
       \/ /\ \E i \in 1..Len(electrs_versions) : selected_electrs' = electrs_versions[i]
          /\ UNCHANGED selected_bitcoin
    /\ UNCHANGED <<msg_q, bitcoin_versions, electrs_versions, target, bitcoin_ver,
                   electrs_ver, ck_pc, modal, is_busy, progress>>
    /\ VerFrame

\* app.rs:561-568, the target combo box
VlTarget ==
    /\ target' \in {"Bitcoin", "Electrs", "Both"}
    /\ UNCHANGED <<msg_q, verVars, bitcoin_ver, electrs_ver, ck_pc, modal, is_busy,
                   progress>>
    /\ VerFrame

\* app.rs:716-731 and 335-366, the Compile button (enabled when not busy)
\* calls spawn_compile
spawn_compile ==
    /\ ~is_busy
    /\ IF not_ready(target, selected_bitcoin, selected_electrs) # "none"
       THEN /\ modal' = NotReadyModal
            /\ UNCHANGED <<bitcoin_ver, electrs_ver, ck_pc, is_busy, progress>>
       ELSE /\ bitcoin_ver' = selected_bitcoin
            /\ electrs_ver' = selected_electrs
            /\ is_busy' = TRUE
            /\ progress' = 0
            /\ ck_pc' = "start"
            /\ UNCHANGED modal
    /\ UNCHANGED <<msg_q, verVars, target>>
    /\ VerFrame

\* app.rs:738-775, the notification is dismissed
VlDismiss ==
    /\ modal.kind = "Alert"
    /\ modal' = [kind |-> "None", req |-> 0]
    /\ UNCHANGED <<msg_q, verVars, target, bitcoin_ver, electrs_ver, ck_pc, is_busy,
                   progress>>
    /\ VerFrame

\* app.rs:366-423 and 233-236, the spawned task ends and its TaskDone is taken
VlTaskDone ==
    /\ ck_pc = "start"
    /\ ck_pc' = "off"
    /\ is_busy' = FALSE
    /\ progress' = 0
    /\ UNCHANGED <<msg_q, verVars, target, bitcoin_ver, electrs_ver, modal>>
    /\ VerFrame

NextVersions ==
    \/ VlLoaded
    \/ VlSelect
    \/ VlTarget
    \/ spawn_compile
    \/ VlDismiss
    \/ VlTaskDone

SpecVersions == InitVersions /\ [][NextVersions]_vars

-----------------------------------------------------------------------------
(* version lists: properties *)

VersionsOf(t) == IF t = "Bitcoin" THEN bitcoin_versions ELSE electrs_versions

\* the list holds no version: empty, or only the placeholder
NotLoaded(versions) == versions = <<>> \/ versions = <<Placeholder>>

\* C20 (as claimed): whenever the Compile button is clicked while the version
\* list of a requested target is empty or holds only the placeholder,
\* spawn_compile shows the "Not Ready" notification, starts no task, sends no
\* message and leaves is_busy and progress as they were.
C20_RefusesWithoutVersions ==
    [][(/\ spawn_compile
        /\ \E t \in Targets : Requested(t) /\ NotLoaded(VersionsOf(t)))
       => /\ modal' = NotReadyModal
          /\ ck_pc' = ck_pc
          /\ msg_q' = msg_q
          /\ is_busy' = is_busy
          /\ progress' = progress]_vars

-----------------------------------------------------------------------------
(***************************************************************************)
(* compiler.rs: the string helpers validate_version_tag, use_cmake and     *)
(* shell_quote, each applied to one argument.                              *)
(***************************************************************************)
MaxTagLen == 4   \* characters of a helper's argument

\* the characters the arguments of each helper are made of
TagChars(fn) ==
    CASE fn = "validate_version_tag" -> {"v", "Z", "2", ".", "-", "_", "+", "U+00E9", "U+0663"}
      [] fn = "use_cmake"            -> {"v", "2", "5", "4", ".", "-"}
      [] fn = "shell_quote"          -> {"a", "'", "\\", " ", "\""}

\* str::replace('\'', r"'\''")
RECURSIVE replace_quote(_)
replace_quote(str) ==
    IF str = <<>> THEN <<>>
    ELSE (IF Head(str) = "'" THEN <<"'", "\\", "'", "'">> ELSE <<Head(str)>>)
         \o replace_quote(Tail(str))

\* compiler.rs:443-445
shell_quote_plain(str) == <<"'">> \o str \o <<"'">>

shell_quote(str) == <<"'">> \o replace_quote(str) \o <<"'">>

\* How a POSIX shell reads `rest` as the remainder of one word (sh, Token
\* Recognition and Quoting): outside quotes a backslash keeps the next
\* character and a blank ends the word; between single quotes every
\* character is kept; between double quotes a backslash escapes only
\* a backslash, a double quote and a dollar sign (and a backquote, which no
\* text of the model holds).  None_ when the text is not exactly one word.
RECURSIVE sh_word(_, _, _)
sh_word(rest, mode, acc) ==
    IF rest = <<>> THEN (IF mode = "plain" THEN Some_(acc) ELSE None_)
    ELSE LET c == Head(rest)
         IN  CASE mode = "single" ->
                    IF c = "'" THEN sh_word(Tail(rest), "plain", acc)
                    ELSE sh_word(Tail(rest), "single", Append(acc, c))
               [] mode = "double" ->
                    IF c = "\"" THEN sh_word(Tail(rest), "plain", acc)
                    ELSE IF c = "\\" /\ Len(rest) >= 2 /\ rest[2] \in {"\\", "\"", "$"}
                         THEN sh_word(Tail(Tail(rest)), "double", Append(acc, rest[2]))
                         ELSE sh_word(Tail(rest), "double", Append(acc, c))
               [] mode = "plain" ->
                    IF c = "'" THEN sh_word(Tail(rest), "single", acc)
                    ELSE IF c = "\"" THEN sh_word(Tail(rest), "double", acc)
                    ELSE IF c = "\\"
                         THEN (IF Len(rest) >= 2
                               THEN sh_word(Tail(Tail(rest)), "plain", Append(acc, rest[2]))
                               ELSE None_)
                    ELSE IF c = " " THEN None_
                    ELSE sh_word(Tail(rest), "plain", Append(acc, c))

InitTag ==
    /\ msg_q = <<>>
    /\ tg_fn \in {"validate_version_tag", "use_cmake", "shell_quote"}
    /\ tg_in \in SeqsUpTo(TagChars(tg_fn), MaxTagLen)
    /\ tg_pc = "call"
    /\ tg_out = <<>>
    /\ RunIdle
    /\ ProbeIdle
    /\ BusIdle
    /\ DepsIdle
    /\ CmpIdle
    /\ VerIdle
    /\ LogIdle
    /\ CopyIdle
    /\ OrdIdle

TagFrame == UNCHANGED <<msg_q, runVars, probeVars, busVars, depsVars, cmpVars, verVars,
                        tg_fn, tg_in, logVars, copyVars, ordVars>>

\* compiler.rs:432-440
TgValidate ==
    /\ tg_pc = "call"
    /\ tg_fn = "validate_version_tag"
    /\ tg_out' = IF validate_version_tag(tg_in) THEN "Ok" ELSE "Err"
    /\ tg_pc' = "done"
    /\ TagFrame

\* compiler.rs:60-64 with use_cmake (354-357)
TgUseCmake ==
    /\ tg_pc = "call"
    /\ tg_fn = "use_cmake"
    /\ tg_out' = IF use_cmake(tg_in) THEN "build_bitcoin_cmake" ELSE "build_bitcoin_autotools"
    /\ tg_pc' = "done"
    /\ TagFrame

\* compiler.rs:443-445
TgShellQuote ==
    /\ tg_pc = "call"
    /\ tg_fn = "shell_quote"
    /\ tg_out' = shell_quote(tg_in)
    /\ tg_pc' = "done"
    /\ TagFrame

NextTag ==
    \/ TgValidate
    \/ TgUseCmake
    \/ TgShellQuote

SpecTag == InitTag /\ [][NextTag]_vars

-----------------------------------------------------------------------------
(* string helpers: properties *)

\* [A-Za-z0-9._-] over the characters of the model
SafeChars == {"v", "r", "c", "Z"} \cup DigitChars \cup {".", "-", "_"}

\* C22 (as claimed): validate_version_tag succeeds exactly for the tags whose
\* characters are all in [A-Za-z0-9._-]; a tag with a letter or digit outside
\* ASCII fails.
C22_ValidatesSafeSetOnly ==
    (tg_fn = "validate_version_tag" /\ tg_pc = "done") =>
        (tg_out = "Ok" <=> \A i \in 1..Len(tg_in) : tg_in[i] \in SafeChars)

\* the number written by the ASCII digits that follow the leading `v`s, 0
\* when there is none
MajorNumber(tag) ==
    LET t  == trim_start_matches_v(tag)
        ds == SelectSeq(LeadingDigits(t), LAMBDA c : c \in DigitChars)
    IN  IF Len(ds) = Len(LeadingDigits(t)) THEN ParseNat(ds) ELSE 0

HasMajorMinor(tag) ==
    LET t == trim_start_matches_v(tag)
        k == Len(LeadingDigits(t))
    IN  /\ k >= 1
        /\ \A i \in 1..k : t[i] \in DigitChars
        /\ Len(t) >= k + 2
        /\ t[k + 1] = "."
        /\ t[k + 2] \in DigitChars

C24_ShellQuoteRoundTrip ==
    (tg_fn = "shell_quote" /\ tg_pc = "done") =>
        sh_word(tg_out, "plain", <<>>) = Some_(tg_in)

C24_Witness ==
    /\ tg_fn = "shell_quote"
    /\ tg_pc = "done"
    /\ tg_in = <<"'", "\\", " ", "\"">>
    /\ tg_out = <<"'", "'", "\\", "'", "'", "\\", " ", "\"", "'">>

-----------------------------------------------------------------------------
(* SpecLog: app.rs append_log *)

\* app.rs:18, 4_000 in the source; the model scales it down
MAX_LOG_LINES == 4
\* app.rs:20
TRIM_TO_LINES == MAX_LOG_LINES \div 2

MaxMsgLen == 2     \* characters of one logged message
MaxBufLen == 10    \* characters the buffer holds after a push

LogChars == {"a", "\n"}

\* msg.chars().filter(|&c| c == '\n').count()
NewLines(str) == Cardinality({i \in 1..Len(str) : str[i] = "\n"})

\* app.rs:197-203: the position of the first newline met with `remaining`
\* at zero, each earlier newline having decremented it; 0 for None
RECURSIVE find_split(_, _, _)
find_split(buf, i, remaining) ==
    IF i > Len(buf) THEN 0
    ELSE IF buf[i] = "\n"
         THEN (IF remaining = 0 THEN i ELSE find_split(buf, i + 1, remaining - 1))
         ELSE find_split(buf, i + 1, remaining)

InitLog ==
    /\ msg_q = <<>>
    /\ log_buffer = <<>>
    /\ log_line_count = 0
    /\ lg_pushed = <<>>
    /\ lg_split = "none"
    /\ RunIdle
    /\ ProbeIdle
    /\ BusIdle
    /\ DepsIdle
    /\ CmpIdle
    /\ VerIdle
    /\ TagIdle
    /\ CopyIdle
    /\ OrdIdle

LogFrame == UNCHANGED <<msg_q, runVars, probeVars, busVars, depsVars, cmpVars, verVars,
                        tagVars, copyVars, ordVars>>

\* app.rs:190-209
append_log(msg) ==
    LET pushed     == log_buffer \o msg
        count      == log_line_count + NewLines(msg)
        drop_count == IF count > TRIM_TO_LINES THEN count - TRIM_TO_LINES ELSE 0
        split_pos  == find_split(pushed, 1, drop_count)
    IN  /\ Len(pushed) <= MaxBufLen
        /\ lg_pushed' = pushed
        /\ IF count > MAX_LOG_LINES
           THEN IF split_pos > 0
                THEN /\ log_buffer' = SubSeq(pushed, split_pos + 1, Len(pushed))
                     /\ log_line_count' = TRIM_TO_LINES
                     /\ lg_split' = "found"
                ELSE /\ log_buffer' = pushed
                     /\ log_line_count' = count
                     /\ lg_split' = "not_found"
           ELSE /\ log_buffer' = pushed
                /\ log_line_count' = count
                /\ lg_split' = "under"

\* app.rs:216, 176-182, 271: every caller of append_log
NextLog ==
    \E msg \in SeqsUpTo(LogChars, MaxMsgLen) \ {<<>>} : append_log(msg) /\ LogFrame

SpecLog == InitLog /\ [][NextLog]_vars

\* C25: when append_log has returned, the tracked line count is at most
\* the maximum.
C25_LineCountBounded == log_line_count <= MAX_LOG_LINES

\* q is what remains of p after some of its first characters are dropped
IsSuffix(q, p) ==
    /\ Len(q) <= Len(p)
    /\ q = SubSeq(p, Len(p) - Len(q) + 1, Len(p))

\* C26: an append that takes the tracked count over the maximum trims the
\* buffer to exactly half the maximum of lines, and what it keeps is a
\* suffix of the text that begins where a line begins.
C26_TrimKeepsHalf ==
    (lg_split \in {"found", "not_found"}) =>
        /\ lg_split = "found"
        /\ NewLines(log_buffer) = TRIM_TO_LINES
        /\ IsSuffix(log_buffer, lg_pushed)
        /\ Len(log_buffer) < Len(lg_pushed)
        /\ lg_pushed[Len(lg_pushed) - Len(log_buffer)] = "\n"

\* C35: the tracked line count equals the number of newline characters the
\* buffer holds.
C35_CountMatchesBuffer == log_line_count = NewLines(log_buffer)

-----------------------------------------------------------------------------
(* SpecCopy: compiler.rs copy_binaries *)

\* compiler.rs:217-223, the first two of the five names
ExpectedBinaries == <<"bitcoind", "bitcoin-cli">>

BuiltStates == {"absent", "755", "555"}
OutStates   == {"absent", "644", "444", "755", "dir"}

\* compiler.rs:279, Path::exists
exists_always(st) == TRUE

exists(st) == st # "absent"

\* the owner may open the entry for writing (or create it)
Writable(entry) == entry \in {"absent", "644", "755"}

\* compiler.rs:300, std::fs::copy: the destination gets the content and the
\* permission bits of the source; it fails when the source is missing, when
\* the destination is a directory, and when it is a file that cannot be
\* opened for writing
fs_copy(src, entry) ==
    IF src # "absent" /\ Writable(entry) THEN Some_(src) ELSE None_

\* compiler.rs:305-308
set_permissions_skipped(mode) == mode

set_permissions(mode) == "755"

CopyMsg(text, b) == CmpMsg("Log", <<text, b>>)

\* compiler.rs:278-327, the loop from the i-th expected binary on
RECURSIVE copy_loop(_, _, _, _)
copy_loop(i, o, done, sent) ==
    IF i > Len(ExpectedBinaries) THEN [out |-> o, copied |-> done, sent |-> sent]
    ELSE LET b == ExpectedBinaries[i]
         IN  IF ~exists(built[b])
             THEN copy_loop(i + 1, o, done,
                            Append(sent, CopyMsg("Binary not found (skipping)", b)))
             ELSE LET c == fs_copy(built[b], o[b])
                  IN  IF c.some
                      THEN copy_loop(i + 1, [o EXCEPT ![b] = set_permissions(c.val)],
                                     Append(done, b),
                                     Append(sent, CopyMsg("Copied", b)))
                      ELSE copy_loop(i + 1, o, done,
                                     Append(sent, CopyMsg("Failed to copy", b)))

\* compiler.rs:269-334: the Result, the output directory afterwards and the
\* messages sent
copy_binaries ==
    IF out_dir = "file"
    THEN [ok |-> FALSE, copied |-> <<>>, dir |-> out_dir, out |-> out, sent |-> <<>>]
    ELSE LET r == copy_loop(1, out, <<>>, <<CopyMsg("Copying binaries to", "dir")>>)
         IN  [ok |-> TRUE, copied |-> r.copied, dir |-> "dir", out |-> r.out,
              sent |-> r.sent \o (IF r.copied = <<>>
                                  THEN <<CopyMsg("WARNING: No binaries were copied!", "none")>>
                                  ELSE <<>>)]

InitCopy ==
    /\ msg_q = <<>>
    /\ built \in [Binaries -> BuiltStates]
    /\ out_dir \in {"absent", "dir", "file"}
    /\ out \in [Binaries -> OutStates]
    /\ out_dir # "dir" => \A b \in Binaries : out[b] = "absent"
    /\ cp_pc = "collect"
    /\ cp_ret = <<>>
    /\ cp_snap = <<out>>
    /\ cp_res = NoReturn
    /\ RunIdle
    /\ ProbeIdle
    /\ BusIdle
    /\ DepsIdle
    /\ CmpIdle
    /\ VerIdle
    /\ TagIdle
    /\ LogIdle
    /\ OrdIdle

CopyFrame == UNCHANGED <<runVars, probeVars, busVars, depsVars, cmpVars, verVars,
                         tagVars, logVars, ordVars, built>>

\* compiler.rs:66-91: compile_bitcoin from Progress(0.9) to its return
CbCollectCopy ==
    /\ cp_pc = "collect"
    /\ LET r == copy_binaries
       IN  /\ out_dir' = r.dir
           /\ out' = r.out
           /\ cp_ret' = Append(cp_ret, [ok |-> r.ok, copied |-> r.copied])
           /\ cp_snap' = Append(cp_snap, r.out)
           /\ IF r.ok
              THEN /\ SendAll(<<CmpMsg("Progress", 90)>> \o r.sent
                       \o (IF r.copied = <<>>
                           THEN <<CopyMsg("Warning: No binaries were copied", "none")>>
                                \o [i \in 1..Len(ExpectedBinaries) |->
                                      CopyMsg(IF built[ExpectedBinaries[i]] # "absent"
                                              THEN "exists" ELSE "missing",
                                              ExpectedBinaries[i])]
                           ELSE <<>>)
                       \o <<CopyMsg("BITCOIN CORE COMPILED SUCCESSFULLY", "none")>>)
                   /\ cp_res' = Succeeded("binaries/bitcoin")
              ELSE /\ SendAll(<<CmpMsg("Progress", 90)>>)
                   /\ cp_res' = Failed("Failed to create output directory")
    /\ cp_pc' = "again"
    /\ CopyFrame

\* copy_binaries called once more with the same list, the build directory
\* as it was (a second build of the same version collects again)
CopyAgain ==
    /\ cp_pc = "again"
    /\ LET r == copy_binaries
       IN  /\ out_dir' = r.dir
           /\ out' = r.out
           /\ cp_ret' = Append(cp_ret, [ok |-> r.ok, copied |-> r.copied])
           /\ cp_snap' = Append(cp_snap, r.out)
           /\ SendAll(r.sent)
    /\ cp_pc' = "done"
    /\ UNCHANGED cp_res
    /\ CopyFrame

NextCopy == CbCollectCopy \/ CopyAgain

SpecCopy == InitCopy /\ [][NextCopy]_vars

\* C27: two calls of copy_binaries over the same build directory return
\* the same destinations and leave the same output directory, every
\* returned destination executable.
C27_CopyIdempotent ==
    cp_pc = "done" =>
        /\ cp_ret[1].ok = cp_ret[2].ok
        /\ Range(cp_ret[1].copied) = Range(cp_ret[2].copied)
        /\ cp_snap[2] = cp_snap[3]
        /\ \A b \in Range(cp_ret[2].copied) : out[b] = "755"

C27_Witness ==
    /\ cp_pc = "done"
    /\ cp_ret[1].copied = <<"bitcoin-cli">>
    /\ cp_ret[2].copied = <<"bitcoin-cli">>
    /\ built["bitcoin-cli"] = "555"
    /\ built["bitcoind"] = "755"
    /\ cp_snap[1]["bitcoind"] = "444"

SkippedWithWarning(b) ==
    \E i \in 1..Len(msg_q) : msg_q[i] = CopyMsg("Binary not found (skipping)", b)

\* C28: copy_binaries fails for no missing binary, warns about each one,
\* and returns exactly the destinations of the expected binaries that
\* exist; compile_bitcoin succeeds even when nothing was copied.
C28_ReturnsExisting ==
    cp_pc = "again" =>
        /\ cp_ret[1].ok <=> out_dir = "dir"
        /\ cp_ret[1].ok =>
              /\ Range(cp_ret[1].copied) = {b \in Binaries : built[b] # "absent"}
              /\ \A b \in Binaries : built[b] = "absent" => SkippedWithWarning(b)
              /\ cp_res = Succeeded("binaries/bitcoin")

\* C28 (amended): the destinations returned are those of the expected
\* binaries that exist and whose copy succeeded; a failed copy is skipped
\* with a warning like a missing binary.
C28_ReturnsExistingCopied ==
    cp_pc = "again" =>
        /\ cp_ret[1].ok <=> out_dir = "dir"
        /\ cp_ret[1].ok =>
              /\ Range(cp_ret[1].copied) =
                    {b \in Binaries : built[b] # "absent" /\ Writable(cp_snap[1][b])}
              /\ \A b \in Binaries : built[b] = "absent" => SkippedWithWarning(b)
              /\ cp_res = Succeeded("binaries/bitcoin")

C28_Witness ==
    /\ cp_pc = "again"
    /\ built["bitcoind"] = "absent"
    /\ built["bitcoin-cli"] = "755"
    /\ cp_snap[1]["bitcoin-cli"] = "444"
    /\ cp_ret[1] = [ok |-> TRUE, copied |-> <<>>]
    /\ cp_res = Succeeded("binaries/bitcoin")

-----------------------------------------------------------------------------
(* SpecOrder: the order in which drain_messages applies what tasks sent *)

OrdTasks == {"compile", "refresh"}

\* app.rs:367-422 (a Bitcoin build that fails in its first command) and
\* app.rs:288-307 (a refresh, loaded or failed): what the task sends
Programs(t) ==
    IF t = "compile"
    THEN {<<Msg("Progress", t, 5), Msg("Progress", t, 10),
            Msg("Log", t, <<"c", "\n">>), Msg("Log", t, <<"f", "\n">>),
            Msg("ShowDialog", t, "Compilation Failed"), Msg("TaskDone", t, "")>>}
    ELSE {<<Msg("Log", t, <<"r", "\n">>), Msg("Log", t, <<"l", "\n">>),
            Msg("VersionsLoaded", t, "")>>,
          <<Msg("Log", t, <<"r", "\n">>), Msg("Log", t, <<"e", "\n">>),
            Msg("ShowDialog", t, "Network Error")>>}

\* app.rs:360-366: the compile task is spawned with is_busy set and the
\* refresh task runs beside it
InitOrder ==
    /\ msg_q = <<>>
    /\ od_prog \in [OrdTasks -> UNION {Programs(t) : t \in OrdTasks}]
    /\ \A t \in OrdTasks : od_prog[t] \in Programs(t)
    /\ od_next = [t \in OrdTasks |-> 0]
    /\ od_applied = <<>>
    /\ brew = FALSE
    /\ obs_pc = "drain"
    /\ modal = NoModal
    /\ is_busy = TRUE
    /\ progress = 0
    /\ polls = 0
    /\ confirm_q = <<>>
    /\ confirm_rx = TRUE
    /\ slot = [r \in 1..MaxRequests |-> "unused"]
    /\ replies = [r \in 1..MaxRequests |-> 0]
    /\ taken = {}
    /\ deferred = {}
    /\ next_req = 0
    /\ dep_pc = "off"
    /\ dep_req = 0
    /\ dep_answer = "none"
    /\ ref_pc = "off"
    /\ RunIdle
    /\ ProbeIdle
    /\ DepsIdle
    /\ CmpIdle
    /\ VerIdle
    /\ TagIdle
    /\ LogIdle
    /\ CopyIdle

OrdFrame == UNCHANGED <<runVars, probeVars, depsVars, cmpVars, verVars, tagVars, copyVars,
                        brew, obs_pc, polls, confirm_q, confirm_rx, slot, replies, taken,
                        deferred, next_req, dep_pc, dep_req, dep_answer, ref_pc, od_prog>>

\* messages.rs:54-56 and every tx.send(..).ok() of a task: its next message
OdSend(t) ==
    /\ od_next[t] < Len(od_prog[t])
    /\ Send(od_prog[t][od_next[t] + 1])
    /\ od_next' = [od_next EXCEPT ![t] = @ + 1]
    /\ UNCHANGED <<modal, is_busy, progress, logVars, od_applied>>
    /\ OrdFrame

\* app.rs:214-238, one iteration of the drain loop, the log text included
OdRecv ==
    /\ msg_q # <<>>
    /\ LET m == Head(msg_q)
       IN  /\ msg_q' = Tail(msg_q)
           /\ od_applied' = Append(od_applied, m)
           /\ IF m.kind = "Log" THEN append_log(m.val) ELSE UNCHANGED logVars
           /\ modal' = IF m.kind = "ShowDialog" THEN AlertModal ELSE modal
           /\ is_busy' = IF m.kind = "TaskDone" THEN FALSE ELSE is_busy
           /\ progress' = IF m.kind = "TaskDone" THEN DoneProgress(progress)
                          ELSE IF m.kind = "Progress"
                               THEN (IF m.val < 0 THEN 0 ELSE IF m.val > 100 THEN 100 ELSE m.val)
                               ELSE progress
    /\ UNCHANGED od_next
    /\ OrdFrame

NextOrder == (\E t \in OrdTasks : OdSend(t)) \/ OdRecv

SpecOrder == InitOrder /\ [][NextOrder]_vars

\* the messages of task t among q, in the order of q
From(t, q) == SelectSeq(q, LAMBDA m : m.src = t)

\* the Log texts of q, one after the other
RECURSIVE LogText(_)
LogText(q) ==
    IF q = <<>> THEN <<>>
    ELSE (IF Head(q).kind = "Log" THEN Head(q).val ELSE <<>>) \o LogText(Tail(q))

\* C34: what the observer has applied of one task is, in order, the first
\* messages that task sent, the buffer holds the applied Log texts in that
\* order, and the state a message sets is that of the last applied message
\* of its kind.
C34_AppliedInSendOrder ==
    /\ \A t \in OrdTasks :
          /\ Len(From(t, od_applied)) <= od_next[t]
          /\ From(t, od_applied) = SubSeq(od_prog[t], 1, Len(From(t, od_applied)))
    /\ IsSuffix(log_buffer, LogText(od_applied))
    /\ \A i \in 1..Len(od_applied) :
          (od_applied[i].kind = "Progress"
             /\ \A j \in (i + 1)..Len(od_applied) :
                   od_applied[j].kind \notin {"Progress", "TaskDone"})
          => progress = od_applied[i].val

\* the two tasks' messages applied in both relative orders
C34_Witness ==
    /\ Len(od_applied) >= 4
    /\ od_applied[1].src = "refresh"
    /\ od_applied[2].src = "compile"
    /\ od_applied[3].src = "refresh"
    /\ od_applied[4].src = "compile"
    /\ od_applied[3].kind = "Log"
    /\ Len(log_buffer) = 4
    /\ progress = 10

====
